---- MODULE Spec2Model ----
(***************************************************************************)
(* Verification model of the devimuth tool collection: the WKT <-> GeoJSON  *)
(* converter (src/utils/gis/geometry.ts), the WKTConverter tool and the     *)
(* WKT tab of CoordinateConverter.                                          *)
(*                                                                          *)
(* A JavaScript string is a sequence of one-character strings.  A number is *)
(* a record [nan, val] whose val is the value in units of 1/Scale; -0 and 0 *)
(* are one value (both print as "0").                                       *)
(***************************************************************************)
EXTENDS Integers, Sequences, FiniteSets, TLC

VARIABLES
    pc,            \* where a conversion under check stands
    arg,           \* its input: a WKT text or a GeoJSON object
    res,           \* outcome of the first conversion
    res2,          \* outcome of converting res back
    tool,          \* the form in use: CoordinateConverter or WKTConverter
    converterType, \* CoordinateConverter: the selected converter tab
    mode,          \* wktMode / conversionMode
    wktInput,      \* the WKT text field
    geojsonInput,  \* the GeoJSON text field
    wktError,      \* wktError / error
    lastOk,        \* history: result of the latest successful Convert in this mode
    lastFailed     \* history: the latest Convert in this mode threw

vars == <<pc, arg, res, res2, tool, converterType, mode, wktInput, geojsonInput,
          wktError, lastOk, lastFailed>>

uiVars == <<tool, converterType, mode, wktInput, geojsonInput, wktError, lastOk, lastFailed>>

(***************************************************************************)
(* Bounds                                                                   *)
(***************************************************************************)
\* numbers carry FracDigits decimal places
FracDigits == 3
\* largest coordinate magnitude (in whole units) of generated geometries
MaxCoord == 2
\* most pairs in a generated line / ring, most rings, most members
MaxPairs == 2
MaxRings == 2
\* most lines of a generated text handed to the line diff
MaxLines == 2
\* most characters of a generated text handed to the character diff
MaxChars == 2
\* the most positions a generated polygon ring has
MaxPositions == 4
\* the most items a generated JSON array has
MaxItems == 2
\* most points clicked on the map
MaxPoints == 4
\* most characters of a hashed text
MaxBytes == 7

Scale == 10 ^ FracDigits

(***************************************************************************)
(* Characters and strings                                                   *)
(***************************************************************************)
Digits == <<"0", "1", "2", "3", "4", "5", "6", "7", "8", "9">>

IsDigit(c) == \E i \in 1..10 : Digits[i] = c

DigitVal(c) == (CHOOSE i \in 1..10 : Digits[i] = c) - 1

\* \s of the regular expressions and of String.prototype.trim
IsSpace(c) == c \in {" ", "\n", "\t"}

\* [-\d.] of the POINT pattern
IsNumChar(c) == IsDigit(c) \/ c = "-" \/ c = "."

LowerCase == <<"a","b","c","d","e","f","g","h","i","j","k","l","m",
               "n","o","p","q","r","s","t","u","v","w","x","y","z">>
UpperCase == <<"A","B","C","D","E","F","G","H","I","J","K","L","M",
               "N","O","P","Q","R","S","T","U","V","W","X","Y","Z">>

\* the /i flag: characters are compared after case folding
ToUpper(c) == IF \E i \in 1..26 : LowerCase[i] = c
              THEN UpperCase[CHOOSE i \in 1..26 : LowerCase[i] = c]
              ELSE c

\* s[i], or "" past either end of the string
CharAt(s, i) == IF i \in 1..Len(s) THEN s[i] ELSE ""

Min(S) == CHOOSE x \in S : \A y \in S : x <= y

\* Array.prototype.join
RECURSIVE Join(_, _)
Join(ss, sep) == IF ss = <<>> THEN <<>>
                 ELSE IF Len(ss) = 1 THEN ss[1]
                 ELSE ss[1] \o sep \o Join(Tail(ss), sep)

\* index of the first character at or after i that is not whitespace
RECURSIVE SkipWs(_, _)
SkipWs(s, i) == IF i <= Len(s) /\ IsSpace(s[i]) THEN SkipWs(s, i + 1) ELSE i

\* index of the first character at or after i that is not in [-\d.]
RECURSIVE SkipNum(_, _)
SkipNum(s, i) == IF i <= Len(s) /\ IsNumChar(s[i]) THEN SkipNum(s, i + 1) ELSE i

\* index of the first character at or after i that is not a digit
RECURSIVE SkipDigits(_, _)
SkipDigits(s, i) == IF i <= Len(s) /\ IsDigit(s[i]) THEN SkipDigits(s, i + 1) ELSE i

\* String.prototype.trim
RECURSIVE TrimEnd(_)
TrimEnd(s) == IF s # <<>> /\ IsSpace(s[Len(s)]) THEN TrimEnd(SubSeq(s, 1, Len(s) - 1)) ELSE s

Trim(s) == TrimEnd(SubSeq(s, SkipWs(s, 1), Len(s)))

\* s.replace(/[()]/g, '')
StripParens(s) == SelectSeq(s, LAMBDA c : c \notin {"(", ")"})

\* s.replace(/^\(|\)$/g, ''): one leading "(" and one trailing ")" go
StripOuterParens(s) ==
    LET a == IF CharAt(s, 1) = "(" THEN Tail(s) ELSE s
    IN  IF a # <<>> /\ a[Len(a)] = ")" THEN SubSeq(a, 1, Len(a) - 1) ELSE a

(***************************************************************************)
(* Numbers: parseFloat and the template-literal conversion `${n}`           *)
(***************************************************************************)
NaN == [nan |-> TRUE, val |-> 0]
\* the JSON value null
JsonNull == [null |-> TRUE]
Num(v) == [nan |-> FALSE, val |-> v]
\* the number m * 10^-e of a magnitude below 10^-6, which rounds to no unit
Exp(m, e) == [nan |-> FALSE, val |-> 0, mantissa |-> m, exponent |-> e]

RECURSIVE DigitsValue(_)
DigitsValue(ds) == IF ds = <<>> THEN 0
                   ELSE 10 * DigitsValue(SubSeq(ds, 1, Len(ds) - 1)) + DigitVal(ds[Len(ds)])

\* the first FracDigits fraction digits, as an integer number of 1/Scale
FracValue(ds) ==
    LET padded == ds \o [i \in 1..FracDigits |-> "0"]
    IN  DigitsValue(SubSeq(padded, 1, FracDigits))

\* parseFloat(s): optional sign, digits, optional fraction; the longest
\* numeric prefix counts, NaN when it holds no digit
parseFloat(s) ==
    LET b  == SkipWs(s, 1)
        neg == CharAt(s, b) = "-"
        i0 == IF CharAt(s, b) \in {"-", "+"} THEN b + 1 ELSE b
        i1 == SkipDigits(s, i0)
        hasFrac == CharAt(s, i1) = "."
        i2 == IF hasFrac THEN SkipDigits(s, i1 + 1) ELSE i1
        intDs == SubSeq(s, i0, i1 - 1)
        fracDs == IF hasFrac THEN SubSeq(s, i1 + 1, i2 - 1) ELSE <<>>
        mag == DigitsValue(intDs) * Scale + FracValue(fracDs)
    IN  IF intDs = <<>> /\ fracDs = <<>> THEN NaN
        ELSE Num(IF neg THEN 0 - mag ELSE mag)

\* parseFloat of the i-th piece of a destructured array; a missing piece is
\* undefined and parseFloat(undefined) is NaN
parseFloatAt(parts, i) == IF i <= Len(parts) THEN parseFloat(parts[i]) ELSE NaN

RECURSIVE NatToString(_)
NatToString(n) == IF n < 10 THEN <<Digits[n + 1]>>
                  ELSE NatToString(n \div 10) \o <<Digits[(n % 10) + 1]>>

RECURSIVE FracToString(_, _)
FracToString(f, width) ==
    IF f = 0 THEN <<>>
    ELSE LET unit == 10 ^ (width - 1)
         IN  <<Digits[(f \div unit) + 1]>> \o FracToString(f % unit, width - 1)

\* `${n}`: shortest decimal text of the number
NumberToString(n) ==
    IF n = JsonNull THEN <<"n", "u", "l", "l">>
    ELSE IF n.nan THEN <<"N", "a", "N">>
    ELSE IF "exponent" \in DOMAIN n
    THEN NatToString(n.mantissa) \o <<"e", "-">> \o NatToString(n.exponent)
    ELSE LET mag == IF n.val < 0 THEN 0 - n.val ELSE n.val
             f == mag % Scale
         IN  (IF n.val < 0 THEN <<"-">> ELSE <<>>)
             \o NatToString(mag \div Scale)
             \o (IF f = 0 THEN <<>> ELSE <<".">> \o FracToString(f, FracDigits))

(***************************************************************************)
(* Regular expressions and String.prototype.split of geometry.ts            *)
(***************************************************************************)
KW_POINT == <<"P", "O", "I", "N", "T">>
KW_LINESTRING == <<"L", "I", "N", "E", "S", "T", "R", "I", "N", "G">>
KW_POLYGON == <<"P", "O", "L", "Y", "G", "O", "N">>
KW_MULTIPOINT == <<"M", "U", "L", "T", "I", "P", "O", "I", "N", "T">>
KW_MULTILINESTRING == <<"M", "U", "L", "T", "I", "L", "I", "N", "E", "S", "T", "R", "I", "N", "G">>
KW_MULTIPOLYGON == <<"M", "U", "L", "T", "I", "P", "O", "L", "Y", "G", "O", "N">>
KW_GEOMETRYCOLLECTION == <<"G", "E", "O", "M", "E", "T", "R", "Y", "C", "O", "L", "L", "E", "C", "T", "I", "O", "N">>

Keywords == {KW_POINT, KW_LINESTRING, KW_POLYGON, KW_MULTIPOINT,
             KW_MULTILINESTRING, KW_MULTIPOLYGON, KW_GEOMETRYCOLLECTION}

\* the keyword kw stands at index i of s, letter case ignored (/i)
KeywordAt(kw, s, i) ==
    /\ i + Len(kw) - 1 <= Len(s)
    /\ \A k \in 1..Len(kw) : ToUpper(s[i + k - 1]) = kw[k]

\* trimmed.match(/^KW\s*\(/i)
PrefixMatch(kw, s) ==
    /\ KeywordAt(kw, s, 1)
    /\ CharAt(s, SkipWs(s, Len(kw) + 1)) = "("

\* a failed String.prototype.match gives null; a match gives its groups
RegexNull == <<>>

\* index of the first ")" at or after i, 0 when a line break (which "." does
\* not match) or the end of the string comes first
RECURSIVE FirstClose(_, _)
FirstClose(s, i) ==
    IF i > Len(s) \/ s[i] = "\n" THEN 0
    ELSE IF s[i] = ")" THEN i
    ELSE FirstClose(s, i + 1)

\* /KW\s*\((.*?)\)/i tried at index i: <<group 1>> or null
BodyMatchAt(kw, s, i) ==
    IF ~KeywordAt(kw, s, i) THEN RegexNull
    ELSE LET open == SkipWs(s, i + Len(kw))
             close == FirstClose(s, open + 1)
         IN  IF CharAt(s, open) = "(" /\ close # 0
             THEN <<SubSeq(s, open + 1, close - 1)>>
             ELSE RegexNull

\* trimmed.match(/KW\s*\((.*?)\)/i): the pattern is not anchored, the
\* leftmost index where it matches wins
BodyMatch(kw, s) ==
    LET starts == {i \in 1..Len(s) : BodyMatchAt(kw, s, i) # RegexNull}
    IN  IF starts = {} THEN RegexNull ELSE BodyMatchAt(kw, s, Min(starts))

\* /POINT\s*\(\s*([-\d.]+)\s+([-\d.]+)\s*\)/i tried at index i
PointMatchAt(s, i) ==
    IF ~KeywordAt(KW_POINT, s, i) THEN RegexNull
    ELSE LET open == SkipWs(s, i + Len(KW_POINT))
             b1 == SkipWs(s, open + 1)
             e1 == SkipNum(s, b1)
             b2 == SkipWs(s, e1)
             e2 == SkipNum(s, b2)
             close == SkipWs(s, e2)
         IN  IF /\ CharAt(s, open) = "("
                /\ e1 > b1 /\ b2 > e1 /\ e2 > b2
                /\ CharAt(s, close) = ")"
             THEN <<SubSeq(s, b1, e1 - 1), SubSeq(s, b2, e2 - 1)>>
             ELSE RegexNull

PointMatch(s) ==
    LET starts == {i \in 1..Len(s) : PointMatchAt(s, i) # RegexNull}
    IN  IF starts = {} THEN RegexNull ELSE PointMatchAt(s, Min(starts))

\* length of the separator that matches at index q of s, 0 when none does
SepLen(sep, s, q) ==
    LET ringSep == IF s[q] = ")" /\ CharAt(s, q + 1) = ","
                      /\ CharAt(s, SkipWs(s, q + 2)) = "("
                   THEN SkipWs(s, q + 2) - q + 1 ELSE 0
    IN  CASE sep = "," -> IF s[q] = "," THEN 1 ELSE 0
          [] sep = "\n" -> IF s[q] = "\n" THEN 1 ELSE 0
          [] sep = "." -> IF s[q] = "." THEN 1 ELSE 0
          [] sep = "\\s+" -> IF IsSpace(s[q]) THEN SkipWs(s, q) - q ELSE 0
          [] sep = "\\),\\s*\\(" -> ringSep
          [] sep = "\\),\\s*\\(|,\\s*(?=\\d)" ->
                IF ringSep # 0 THEN ringSep
                ELSE IF s[q] = "," /\ IsDigit(CharAt(s, SkipWs(s, q + 1)))
                THEN SkipWs(s, q + 1) - q ELSE 0
          [] sep = "\\)\\),\\s*\\(\\(" ->
                IF s[q] = ")" /\ CharAt(s, q + 1) = ")" /\ CharAt(s, q + 2) = ","
                   /\ CharAt(s, SkipWs(s, q + 3)) = "("
                   /\ CharAt(s, SkipWs(s, q + 3) + 1) = "("
                THEN SkipWs(s, q + 3) - q + 2 ELSE 0

\* String.prototype.split: p is the start of the piece being collected, q the
\* index where a separator is tried next
RECURSIVE SplitFrom(_, _, _, _)
SplitFrom(s, sep, p, q) ==
    IF q > Len(s) THEN <<SubSeq(s, p, Len(s))>>
    ELSE LET n == SepLen(sep, s, q)
         IN  IF n = 0 THEN SplitFrom(s, sep, p, q + 1)
             ELSE <<SubSeq(s, p, q - 1)>> \o SplitFrom(s, sep, q + n, q + n)

Split(s, sep) == SplitFrom(s, sep, 1, 1)

(***************************************************************************)
(* wktToGeoJSONExtended (geometry.ts)                                       *)
(***************************************************************************)
\* the outcome of a call: a returned value or a thrown Error whose message is
\* the parts joined by ": "
Return(v) == [threw |-> FALSE, value |-> v]
Throw(parts) == [threw |-> TRUE, message |-> parts]

\* the pair built from the pieces that are there only
PairOf_PiecesPresent(xy) ==
    IF Len(xy) >= 2 THEN <<parseFloatAt(xy, 2), parseFloatAt(xy, 1)>>
    ELSE <<parseFloatAt(xy, 1)>>

\* [parseFloat(y), parseFloat(x)] of the pieces [x, y]
PairOf(xy) == <<parseFloatAt(xy, 2), parseFloatAt(xy, 1)>>

\* const [x, y] = p.trim().split(/\s+/); return [parseFloat(y), parseFloat(x)]
ParsePair(p) == PairOf(Split(Trim(p), "\\s+"))

ParseEachPair(pieces) == [k \in 1..Len(pieces) |-> ParsePair(pieces[k])]

\* text.split(',').map(...)
ParsePairs(text) == ParseEachPair(Split(text, ","))

\* a ring or a line string: parentheses removed, then its pairs
ParseRing(ring) == ParsePairs(StripParens(ring))

ParseEachRing(pieces) == [k \in 1..Len(pieces) |-> ParseRing(pieces[k])]

\* rings (or line strings) separated by /\),\s*\(/
ParseRings(text) == ParseEachRing(Split(text, "\\),\\s*\\("))

\* a MULTIPOINT entry: parentheses removed, trimmed, then one pair
ParseMultiPointEntry(p) == PairOf(Split(Trim(StripParens(p)), "\\s+"))

ParseEachMultiPointEntry(pieces) ==
    [k \in 1..Len(pieces) |-> ParseMultiPointEntry(pieces[k])]

\* one polygon of a MULTIPOLYGON body
ParsePolygonEntry(polygon) == ParseRings(StripOuterParens(polygon))

ParseEachPolygonEntry(pieces) ==
    [k \in 1..Len(pieces) |-> ParsePolygonEntry(pieces[k])]

\* a case of the function that did not return: control reaches the next one
FallThrough == [fallthrough |-> TRUE]

\* if (coords) return {type: 'Point', coordinates: [group 2, group 1]}
PointResult_RejectsNaN(coords) ==
    IF coords = RegexNull THEN FallThrough
    ELSE IF parseFloat(coords[1]).nan \/ parseFloat(coords[2]).nan
    THEN Throw(<<"Invalid coordinates">>)
    ELSE Return([type |-> "Point",
                 coordinates |-> <<parseFloat(coords[2]), parseFloat(coords[1])>>])

PointResult(coords) ==
    IF coords = RegexNull THEN FallThrough
    ELSE Return([type |-> "Point",
                 coordinates |-> <<parseFloat(coords[2]), parseFloat(coords[1])>>])

LineStringResult(coords) ==
    IF coords = RegexNull THEN FallThrough
    ELSE Return([type |-> "LineString", coordinates |-> ParsePairs(coords[1])])

PolygonResult(coords) ==
    IF coords = RegexNull THEN FallThrough
    ELSE Return([type |-> "Polygon", coordinates |-> ParseRings(coords[1])])

MultiPointResult(coords) ==
    IF coords = RegexNull THEN FallThrough
    ELSE Return([type |-> "MultiPoint",
                 coordinates |-> ParseEachMultiPointEntry(
                                     Split(coords[1], "\\),\\s*\\(|,\\s*(?=\\d)"))])

MultiLineStringResult(coords) ==
    IF coords = RegexNull THEN FallThrough
    ELSE Return([type |-> "MultiLineString", coordinates |-> ParseRings(coords[1])])

MultiPolygonResult(coords) ==
    IF coords = RegexNull THEN FallThrough
    ELSE Return([type |-> "MultiPolygon",
                 coordinates |-> ParseEachPolygonEntry(
                                     Split(coords[1], "\\)\\),\\s*\\(\\("))])

\* // Point
PointCase(trimmed) ==
    IF PrefixMatch(KW_POINT, trimmed) THEN PointResult(PointMatch(trimmed))
    ELSE FallThrough

\* // LineString
LineStringCase(trimmed) ==
    IF PrefixMatch(KW_LINESTRING, trimmed)
    THEN LineStringResult(BodyMatch(KW_LINESTRING, trimmed))
    ELSE FallThrough

\* // Polygon
PolygonCase(trimmed) ==
    IF PrefixMatch(KW_POLYGON, trimmed)
    THEN PolygonResult(BodyMatch(KW_POLYGON, trimmed))
    ELSE FallThrough

\* // MultiPoint
MultiPointCase(trimmed) ==
    IF PrefixMatch(KW_MULTIPOINT, trimmed)
    THEN MultiPointResult(BodyMatch(KW_MULTIPOINT, trimmed))
    ELSE FallThrough

\* // MultiLineString
MultiLineStringCase(trimmed) ==
    IF PrefixMatch(KW_MULTILINESTRING, trimmed)
    THEN MultiLineStringResult(BodyMatch(KW_MULTILINESTRING, trimmed))
    ELSE FallThrough

\* // MultiPolygon
MultiPolygonCase(trimmed) ==
    IF PrefixMatch(KW_MULTIPOLYGON, trimmed)
    THEN MultiPolygonResult(BodyMatch(KW_MULTIPOLYGON, trimmed))
    ELSE FallThrough

RECURSIVE wktToGeoJSONExtended(_)
RECURSIVE CollectGeometries(_, _, _, _, _)

\* the loop body without its try/catch: a member that throws ends the loop
KeepMember_NoCatch(geom, geoms) ==
    IF geoms.threw THEN geoms
    ELSE IF geom.threw THEN geom
    ELSE Return(<<geom.value>> \o geoms.value)

\* try { geoms.unshift(geom) } catch (e) { /* skip */ }: geom is the outcome
\* of the recursive conversion, geoms the outcome of the loop so far
KeepMember(geom, geoms) ==
    IF geom.threw THEN geoms ELSE Return(<<geom.value>> \o geoms.value)

\* depth after the loop has read char
DepthAfter(char, depth) ==
    IF char = ")" THEN depth + 1 ELSE IF char = "(" THEN depth - 1 ELSE depth

\* the right-to-left loop over the GEOMETRYCOLLECTION body: i is the loop
\* index (1-based), geoms the members found so far
CollectGeometries(body, i, depth, current, geoms) ==
    IF i < 1 THEN geoms
    ELSE IF DepthAfter(body[i], depth) = 0 /\ Trim(<<body[i]>> \o current) # <<>>
    THEN CollectGeometries(body, i - 1, 0, <<>>,
             KeepMember(wktToGeoJSONExtended(Trim(<<body[i]>> \o current)), geoms))
    ELSE CollectGeometries(body, i - 1, DepthAfter(body[i], depth),
                           <<body[i]>> \o current, geoms)

\* return {type: 'GeometryCollection', geometries: geoms}
CollectionResult(geoms) ==
    IF geoms.threw THEN geoms
    ELSE Return([type |-> "GeometryCollection", geometries |-> geoms.value])

CollectionFrom(geometries) ==
    IF geometries = RegexNull THEN FallThrough
    ELSE CollectionResult(CollectGeometries(geometries[1], Len(geometries[1]), 0,
                                            <<>>, Return(<<>>)))

\* // GeometryCollection
GeometryCollectionCase(trimmed) ==
    IF PrefixMatch(KW_GEOMETRYCOLLECTION, trimmed)
    THEN CollectionFrom(BodyMatch(KW_GEOMETRYCOLLECTION, trimmed))
    ELSE FallThrough

\* the cases of the function in source order
WKTCases(trimmed) ==
    <<PointCase(trimmed), LineStringCase(trimmed), PolygonCase(trimmed),
      MultiPointCase(trimmed), MultiLineStringCase(trimmed),
      MultiPolygonCase(trimmed), GeometryCollectionCase(trimmed)>>

\* the outcome of the first case that returns or throws; the throw at the end
\* of the try block when every case falls through
FirstTaken(cases) ==
    LET taken == {k \in 1..Len(cases) : cases[k] # FallThrough}
    IN  IF taken = {}
        THEN Throw(<<"Unsupported WKT geometry type or invalid format">>)
        ELSE cases[Min(taken)]

\* catch (error) { throw new Error(`Invalid WKT format: ${error.message}`) }
RethrowWKT(outcome) ==
    IF outcome.threw THEN Throw(<<"Invalid WKT format">> \o outcome.message)
    ELSE outcome

wktToGeoJSONExtended(wkt) == RethrowWKT(FirstTaken(WKTCases(Trim(wkt))))

(***************************************************************************)
(* geoJSONToWKTExtended (geometry.ts)                                       *)
(***************************************************************************)
GeometryTypes == {"Point", "LineString", "Polygon", "MultiPoint",
                  "MultiLineString", "MultiPolygon", "GeometryCollection"}

\* the pair written latitude first
PairToString_Swapped(pair) == NumberToString(pair[2]) \o <<" ">> \o NumberToString(pair[1])

\* `${lon} ${lat}`
PairToString(pair) == NumberToString(pair[1]) \o <<" ">> \o NumberToString(pair[2])

\* pairs.map(([lon, lat]) => `${lon} ${lat}`).join(', ')
PairsToString(pairs) ==
    Join([k \in 1..Len(pairs) |-> PairToString(pairs[k])], <<",", " ">>)

\* `(${coords})`
RingToString(ring) == <<"(">> \o PairsToString(ring) \o <<")">>

\* rings.join(', ')
RingsToString(rings) ==
    Join([k \in 1..Len(rings) |-> RingToString(rings[k])], <<",", " ">>)

\* `(${rings.join(', ')})`
PolygonToString(polygon) == <<"(">> \o RingsToString(polygon) \o <<")">>

\* polygons.join(', ')
PolygonsToString(polygons) ==
    Join([k \in 1..Len(polygons) |-> PolygonToString(polygons[k])], <<",", " ">>)

\* `KEYWORD(${body})`
Wrapped(kw, body) == kw \o <<"(">> \o body \o <<")">>

RECURSIVE geoJSONToWKTExtended(_)
RECURSIVE MembersToWKT(_)

\* the map leaving out a member that throws, as the parser's loop does
AppendMember_SkipsFailed(first, rest) ==
    IF first.threw THEN rest
    ELSE IF rest.threw THEN rest
    ELSE Return(<<first.value>> \o rest.value)

\* one element of geometries.map(...): first is the outcome for the element,
\* rest the outcome for the elements after it; the first throw ends the map
AppendMember(first, rest) ==
    IF first.threw THEN first
    ELSE IF rest.threw THEN rest
    ELSE Return(<<first.value>> \o rest.value)

\* geojson.geometries.map((geom) => geoJSONToWKTExtended(geom))
MembersToWKT(geoms) ==
    IF geoms = <<>> THEN Return(<<>>)
    ELSE AppendMember(geoJSONToWKTExtended(Head(geoms)), MembersToWKT(Tail(geoms)))

\* `GEOMETRYCOLLECTION(${geometries.join(', ')})`, or the member's error
\* rethrown by this call's catch
CollectionToWKT(geometries) ==
    IF geometries.threw THEN Throw(<<"Invalid GeoJSON format">> \o geometries.message)
    ELSE Return(Wrapped(KW_GEOMETRYCOLLECTION, Join(geometries.value, <<",", " ">>)))

\* the field the case reads is missing (or geojson is null): a TypeError
MissingField(geojson) ==
    \/ "type" \notin DOMAIN geojson
    \/ /\ geojson.type \in GeometryTypes \ {"GeometryCollection"}
       /\ "coordinates" \notin DOMAIN geojson
    \/ /\ geojson.type = "GeometryCollection"
       /\ "geometries" \notin DOMAIN geojson

geoJSONToWKTExtended(geojson) ==
    IF MissingField(geojson)
    THEN IF "type" \in DOMAIN geojson \/ geojson = JsonNull
         THEN Throw(<<"Invalid GeoJSON format", "TypeError">>)
         ELSE Throw(<<"Invalid GeoJSON format", "Unsupported GeoJSON geometry type", "undefined">>)
    ELSE CASE geojson.type = "Point" ->
               Return(Wrapped(KW_POINT, PairToString(geojson.coordinates)))
          [] geojson.type = "LineString" ->
               Return(Wrapped(KW_LINESTRING, PairsToString(geojson.coordinates)))
          [] geojson.type = "Polygon" ->
               Return(Wrapped(KW_POLYGON, RingsToString(geojson.coordinates)))
          [] geojson.type = "MultiPoint" ->
               Return(Wrapped(KW_MULTIPOINT, PairsToString(geojson.coordinates)))
          [] geojson.type = "MultiLineString" ->
               Return(Wrapped(KW_MULTILINESTRING, RingsToString(geojson.coordinates)))
          [] geojson.type = "MultiPolygon" ->
               Return(Wrapped(KW_MULTIPOLYGON, PolygonsToString(geojson.coordinates)))
          [] geojson.type = "GeometryCollection" ->
               CollectionToWKT(MembersToWKT(geojson.geometries))
          [] OTHER ->
               Throw(<<"Invalid GeoJSON format", "Unsupported GeoJSON geometry type",
                       geojson.type>>)

(***************************************************************************)
(* wktToGeoJSON and geoJSONToWKT of the WKTConverter tool                   *)
(***************************************************************************)
\* trimmed.startsWith(kw): letter case counts
StartsWith(s, kw) == Len(s) >= Len(kw) /\ SubSeq(s, 1, Len(kw)) = kw

\* the three cases of wktToGeoJSON: the same patterns and bodies as the first
\* three of wktToGeoJSONExtended behind a startsWith test
SimpleWKTCases(trimmed) ==
    <<IF StartsWith(trimmed, KW_POINT) THEN PointResult(PointMatch(trimmed))
      ELSE FallThrough,
      IF StartsWith(trimmed, KW_LINESTRING)
      THEN LineStringResult(BodyMatch(KW_LINESTRING, trimmed)) ELSE FallThrough,
      IF StartsWith(trimmed, KW_POLYGON)
      THEN PolygonResult(BodyMatch(KW_POLYGON, trimmed)) ELSE FallThrough>>

\* catch (error) { throw new Error('Invalid WKT format') }
RethrowPlainWKT(outcome) ==
    IF outcome.threw THEN Throw(<<"Invalid WKT format">>) ELSE outcome

wktToGeoJSON(wkt) == RethrowPlainWKT(FirstTaken(SimpleWKTCases(Trim(wkt))))

geoJSONToWKT(geojson) ==
    IF "type" \notin DOMAIN geojson THEN Throw(<<"Invalid GeoJSON format">>)
    ELSE IF geojson.type \in {"Point", "LineString", "Polygon"}
            /\ "coordinates" \notin DOMAIN geojson
    THEN Throw(<<"Invalid GeoJSON format">>)
    ELSE IF geojson.type = "Point"
    THEN Return(Wrapped(KW_POINT, PairToString(geojson.coordinates)))
    ELSE IF geojson.type = "LineString"
    THEN Return(Wrapped(KW_LINESTRING, PairsToString(geojson.coordinates)))
    ELSE IF geojson.type = "Polygon"
    THEN Return(Wrapped(KW_POLYGON, RingsToString(geojson.coordinates)))
    ELSE Throw(<<"Invalid GeoJSON format">>)

(***************************************************************************)
(* JSON.stringify and JSON.parse.  The text of a JSON document is the value *)
(* it denotes; text that is no JSON document is "garbage".                  *)
(***************************************************************************)
\* JSON.stringify writes NaN as null
JsonNumber(n) == IF n.nan THEN JsonNull ELSE n

RECURSIVE JsonCoordinates(_, _)
JsonCoordinates(c, depth) ==
    IF depth = 0 THEN <<JsonNumber(c[1]), JsonNumber(c[2])>>
    ELSE [i \in 1..Len(c) |-> JsonCoordinates(c[i], depth - 1)]

\* nesting depth of the coordinates of each type
CoordinateDepth(type) ==
    CASE type = "Point" -> 0
      [] type \in {"LineString", "MultiPoint"} -> 1
      [] type \in {"Polygon", "MultiLineString"} -> 2
      [] type = "MultiPolygon" -> 3

RECURSIVE JsonGeometry(_)
JsonGeometry(g) ==
    IF g.type = "GeometryCollection"
    THEN [type |-> g.type, geometries |-> [i \in 1..Len(g.geometries) |-> JsonGeometry(g.geometries[i])]]
    ELSE [type |-> g.type, coordinates |-> JsonCoordinates(g.coordinates, CoordinateDepth(g.type))]

\* JSON.stringify(geojson, null, 2) of a geometry the parsers return
JSONstringify(g) == [kind |-> "json", value |-> JsonGeometry(g)]

\* JSON.parse(text)
JSONparse(text) == IF text.kind = "json" THEN Return(text.value)
                   ELSE Throw(<<"SyntaxError">>)

EmptyText == [kind |-> "empty"]

(***************************************************************************)
(* Inputs of the conversions                                                *)
(***************************************************************************)
SeqsUpTo(S, n) == UNION {[1..k -> S] : k \in 1..n}

\* a number written with three decimals in the specification's examples
Milli(n) == Num(n * (Scale \div 1000))

CoordVals == {Num(k * (Scale \div 2)) : k \in -1..MaxCoord}

LinePairs == {<<Num(0), Num(Scale)>>, <<Num(0 - (Scale \div 2)), Num(2 * Scale)>>,
              <<Num(Scale), Num(Scale)>>}

Lines == SeqsUpTo(LinePairs, MaxPairs)

\* rings and the line strings of a MultiLineString
Rings == {<<<<Num(0 - (Scale \div 2)), Num(2 * Scale)>>>>,
          <<<<Num(0), Num(Scale)>>, <<Num(Scale), Num(2 * Scale)>>>>,
          <<<<Num(0), Num(0)>>, <<Num(Scale), Num(0)>>, <<Num(0), Num(0)>>>>}

\* the two rings the polygons of a MultiPolygon are made of
PolygonRings == {<<<<Num(0), Num(0)>>, <<Num(Scale), Num(0)>>, <<Num(0), Num(0)>>>>,
                 <<<<Num(0), Num(Scale)>>, <<Num(2 * Scale), Num(Scale)>>>>}

Points == {[type |-> "Point", coordinates |-> <<a, b>>] : a \in CoordVals, b \in CoordVals}
            \cup {[type |-> "Point", coordinates |-> <<Milli(13405), Milli(52520)>>]}

LineStrings == {[type |-> "LineString", coordinates |-> l] : l \in Lines}
                 \cup {[type |-> "LineString",
                        coordinates |-> <<<<Milli(13405), Milli(52520)>>,
                                          <<Milli(13410), Milli(52530)>>>>]}

Polygons == {[type |-> "Polygon", coordinates |-> rs] : rs \in SeqsUpTo(Rings, MaxRings)}

MultiPoints == {[type |-> "MultiPoint", coordinates |-> l] : l \in Lines}
                 \cup {[type |-> "MultiPoint",
                        coordinates |-> <<<<Num(Scale), Num(2 * Scale)>>,
                                          <<Num(0 - 3 * Scale), Num(4 * Scale)>>>>]}

MultiLineStrings == {[type |-> "MultiLineString", coordinates |-> ls] : ls \in SeqsUpTo(Rings, MaxRings)}

MultiPolygons == {[type |-> "MultiPolygon", coordinates |-> ps] :
                     ps \in SeqsUpTo(SeqsUpTo(PolygonRings, MaxRings), 2)}

\* well-formed geometries that are not collections
SimpleGeometries == Points \cup LineStrings \cup Polygons \cup MultiPoints
                      \cup MultiLineStrings \cup MultiPolygons

\* points with the coordinate 1e-7, written with an exponent by `${lon}`
SmallPoints == {[type |-> "Point", coordinates |-> <<Exp(1, 7), Num(0)>>],
                [type |-> "Point", coordinates |-> <<Num(Scale), Exp(1, 7)>>]}

\* objects whose type is none of the seven, an object without type, null
Unsupported == {[type |-> "Feature"], [type |-> "Circle", coordinates |-> <<Num(0), Num(0)>>],
                [coordinates |-> <<Num(0), Num(0)>>], JsonNull}

Members == {[type |-> "Point", coordinates |-> <<Num(Scale), Num(2 * Scale)>>],
            [type |-> "LineString", coordinates |-> <<<<Num(0), Num(Scale)>>, <<Num(Scale), Num(Scale)>>>>],
            [type |-> "Polygon", coordinates |-> <<<<<<Num(0), Num(0)>>, <<Num(Scale), Num(0)>>, <<Num(0), Num(0)>>>>>>],
            [type |-> "GeometryCollection", geometries |-> <<>>],
            [type |-> "GeometryCollection",
             geometries |-> <<[type |-> "Point", coordinates |-> <<Num(0), Num(Scale)>>]>>]}

\* member lists of 0 to 2 entries
MemberLists(S) == {<<>>} \cup SeqsUpTo(S, 2)

Collections == {[type |-> "GeometryCollection", geometries |-> ms] : ms \in MemberLists(Members)}

\* collections with an unsupported member, directly or one level down
BadCollections ==
    LET bad == {[type |-> "GeometryCollection", geometries |-> ms] :
                   ms \in MemberLists(Members \cup {[type |-> "Feature"]}) \ MemberLists(Members)}
    IN  bad \cup {[type |-> "GeometryCollection", geometries |-> <<b>>] : b \in bad}
            \cup {[type |-> "GeometryCollection"]}

GeoJSONInputs == SimpleGeometries \cup Collections \cup Unsupported \cup BadCollections
                   \cup SmallPoints

\* WKT in the serializer's own layout
SerializedWKT == {geoJSONToWKTExtended(g).value : g \in SimpleGeometries \cup Collections}

ToLower(c) == IF \E i \in 1..26 : UpperCase[i] = c
              THEN LowerCase[CHOOSE i \in 1..26 : UpperCase[i] = c]
              ELSE c

\* other layouts and damaged copies of a well-formed text
Variants(w) ==
    { <<" ">> \o w \o <<" ", "\n">>,
      [i \in 1..Len(w) |-> IF i % 2 = 1 THEN ToLower(w[i]) ELSE w[i]],
      SubSeq(w, 1, Len(w) - 1),
      w \o <<")">>,
      w \o <<" ", "x">>,
      <<"X">> \o w,
      [i \in 1..Len(w) |-> IF w[i] = "(" THEN "[" ELSE w[i]],
      [i \in 1..Len(w) |-> IF w[i] = " " THEN "\t" ELSE w[i]],
      SelectSeq(w, LAMBDA c : c # " ") }

HandWrittenWKT ==
    {<<"P", "O", "I", "N", "T", "(", "1", "3", ".", "4", "0", "5", "0", " ", "5", "2", ".", "5", "2", "0", "0", ")">>,
     <<"P", "O", "L", "Y", "G", "O", "N", "(", "1", " ", "2", ",", " ", "3", " ", "4">>,
     <<"P", "O", "L", "Y", "G", "O", "N", "(", "(", "1", " ", "2", ",", " ", "3", " ", "4", ")">>,
     <<"P", "O", "L", "Y", "G", "O", "N", "(", "(", "0", " ", "0", ",", " ", "1", " ", "0", ",", " ", "1", " ", "1", ",", " ", "0", " ", "0", ")", ",", " ", "(", "2", " ", "2", ",", " ", "3", " ", "2", ",", " ", "3", " ", "3", ",", " ", "2", " ", "2", ")", ")">>,
     <<"M", "U", "L", "T", "I", "P", "O", "I", "N", "T", "(", "(", "1", " ", "2", ")", ",", " ", "(", "3", " ", "4", ")", ")">>,
     <<"M", "U", "L", "T", "I", "P", "O", "I", "N", "T", "(", "1", " ", "2", ",", " ", "-", "3", " ", "4", ")">>,
     <<"M", "U", "L", "T", "I", "P", "O", "I", "N", "T", "(", "1", " ", "2", ",", "3", " ", "4", ")">>,
     <<"P", "O", "I", "N", "T", "(", "a", " ", "b", ")">>,
     <<"P", "O", "I", "N", "T", "(", "1", " ", "2", ")", ")">>,
     <<"P", "O", "I", "N", "T", "(", "\n", "M", "U", "L", "T", "I", "P", "O", "I", "N", "T", "(", "1", " ", "2", ")">>,
     <<"L", "I", "N", "E", "S", "T", "R", "I", "N", "G", "(", "1", " ", "2", ",", "\n", "3", " ", "4", ")">>,
     <<"L", "I", "N", "E", "S", "T", "R", "I", "N", "G", "(", ")">>,
     <<"L", "I", "N", "E", "S", "T", "R", "I", "N", "G", "(", "1", ")">>,
     <<"P", "O", "I", "N", "T", "(", "-", ".", "5", " ", "+", "1", ")">>,
     <<"P", "O", "I", "N", "T", "(", "-", " ", ".", ")">>,
     <<"P", "O", "I", "N", "T">>,
     <<>>,
     <<"C", "I", "R", "C", "L", "E", "(", "1", " ", "2", ")">>,
     <<"p", "o", "i", "n", "t", " ", "(", "1", ".", "5", "0", " ", "-", "2", ")">>,
     <<"P", "o", "l", "y", "g", "o", "n", " ", "(", "(", "1", " ", "2", ",", " ", "3", " ", "4", ")", ")">>,
     <<"G", "E", "O", "M", "E", "T", "R", "Y", "C", "O", "L", "L", "E", "C", "T", "I", "O", "N", "(", "P", "O", "I", "N", "T", "(", "1", " ", "2", ")", ",", " ", "F", "O", "O", "(", "3", ")", ")">>,
     <<"G", "E", "O", "M", "E", "T", "R", "Y", "C", "O", "L", "L", "E", "C", "T", "I", "O", "N", "(", ")">>,
     <<"G", "E", "O", "M", "E", "T", "R", "Y", "C", "O", "L", "L", "E", "C", "T", "I", "O", "N", "(", "a", "b", "c", ")">>,
     <<"G", "E", "O", "M", "E", "T", "R", "Y", "C", "O", "L", "L", "E", "C", "T", "I", "O", "N", "(", "P", "O", "I", "N", "T", "(", "1", " ", "2", ")">>,
     <<"G", "E", "O", "M", "E", "T", "R", "Y", "C", "O", "L", "L", "E", "C", "T", "I", "O", "N", " ", "P", "O", "I", "N", "T", "(", "1", " ", "2", ")">>,
     <<"g", "e", "o", "m", "e", "t", "r", "y", "c", "o", "l", "l", "e", "c", "t", "i", "o", "n", "(", "L", "I", "N", "E", "S", "T", "R", "I", "N", "G", "(", "1", " ", "2", ",", " ", "3", " ", "4", ")", ",", " ", "P", "O", "I", "N", "T", "(", "a", ")", ")">>,
     <<"M", "U", "L", "T", "I", "L", "I", "N", "E", "S", "T", "R", "I", "N", "G", "(", "(", "1", " ", "2", ",", " ", "3", " ", "4", ")", ",", " ", "(", "5", " ", "6", ",", " ", "7", " ", "8", ")", ")">>,
     <<"M", "U", "L", "T", "I", "P", "O", "L", "Y", "G", "O", "N", "(", "(", "(", "0", " ", "0", ",", " ", "1", " ", "1", ")", ")", ",", " ", "(", "(", "2", " ", "2", ",", " ", "3", " ", "3", ")", ",", " ", "(", "4", " ", "4", ",", " ", "5", " ", "5", ")", ")", ")">>,
     <<"M", "U", "L", "T", "I", "P", "O", "L", "Y", "G", "O", "N", "(", "(", "(", "1", " ", "2", ",", " ", "3", " ", "4", ")">>}

WKTInputs == SerializedWKT \cup UNION {Variants(w) : w \in SerializedWKT} \cup HandWrittenWKT

(***************************************************************************)
(* The conversions applied to the inputs                                    *)
(***************************************************************************)
NoResult == [none |-> TRUE]

UIIdle ==
    /\ tool = "none" /\ mode = "wkt-to-geojson" /\ converterType = "wkt-geojson"
    /\ wktInput = <<>> /\ geojsonInput = EmptyText
    /\ wktError = <<>> /\ lastOk = NoResult /\ lastFailed = FALSE

\* a WKT text is about to be parsed and written back
InitParse ==
    /\ pc = "wkt" /\ arg \in WKTInputs /\ res = NoResult /\ res2 = NoResult
    /\ UIIdle

\* a GeoJSON object is about to be written and parsed back
InitWrite ==
    /\ pc = "geojson" /\ arg \in GeoJSONInputs /\ res = NoResult /\ res2 = NoResult
    /\ UIIdle

ParseWKT ==
    /\ pc = "wkt"
    /\ res' = wktToGeoJSONExtended(arg)
    /\ pc' = "parsed"
    /\ UNCHANGED <<arg, res2>> /\ UNCHANGED uiVars

WriteBack ==
    /\ pc = "parsed" /\ ~res.threw
    /\ res2' = geoJSONToWKTExtended(res.value)
    /\ pc' = "rewritten"
    /\ UNCHANGED <<arg, res>> /\ UNCHANGED uiVars

WriteWKT ==
    /\ pc = "geojson"
    /\ res' = geoJSONToWKTExtended(arg)
    /\ pc' = "written"
    /\ UNCHANGED <<arg, res2>> /\ UNCHANGED uiVars

ParseBack ==
    /\ pc = "written" /\ ~res.threw
    /\ res2' = wktToGeoJSONExtended(res.value)
    /\ pc' = "reparsed"
    /\ UNCHANGED <<arg, res>> /\ UNCHANGED uiVars

\* the same text is given to wktToGeoJSON of the WKTConverter tool
ParseSimpleWKT ==
    /\ pc = "wkt"
    /\ res' = wktToGeoJSON(arg)
    /\ pc' = "parsedSimple"
    /\ UNCHANGED <<arg, res2>> /\ UNCHANGED uiVars

NextParse == ParseWKT \/ WriteBack \/ ParseSimpleWKT
NextWrite == WriteWKT \/ ParseBack

SpecParse == InitParse /\ [][NextParse]_vars
SpecWrite == InitWrite /\ [][NextWrite]_vars

(***************************************************************************)
(* The WKT forms: CoordinateConverter's WKT tab and WKTConverter            *)
(***************************************************************************)
Tools == {"CoordinateConverter", "WKTConverter"}
ConverterTypes == {"wgs84-utm", "dms-decimal", "wkt-geojson"}

\* texts a user types into the WKT field
UIWktTexts ==
    {<<>>,
     <<"P", "O", "I", "N", "T", "(", "1", " ", "2", ")">>,
     <<"p", "o", "i", "n", "t", "(", "1", ".", "5", "0", " ", "2", ")">>,
     <<"P", "O", "L", "Y", "G", "O", "N", "(", "1", " ", "2", ",", " ", "3", " ", "4">>,
     <<"M", "U", "L", "T", "I", "P", "O", "I", "N", "T", "(", "1", " ", "2", ",", "3", " ", "4", ")">>,
     <<"P", "O", "L", "Y", "G", "O", "N", "(", "(", "0", " ", "0", ",", " ", "1", " ", "0", ",", " ", "0", " ", "0", ")", ")">>,
     <<"P", "O", "I", "N", "T", "(", "-", " ", ".", ")">>}

\* texts a user types into the GeoJSON field
UIJsonTexts ==
    {EmptyText, [kind |-> "garbage"]}
      \cup {[kind |-> "json", value |-> v] :
              v \in {[type |-> "Point", coordinates |-> <<Num(Scale), Num(2 * Scale)>>],
                     [type |-> "LineString", coordinates |-> <<<<Num(0), Num(Scale)>>, <<Num(Scale), Num(Scale)>>>>],
                     [type |-> "MultiPoint", coordinates |-> <<<<Num(0), Num(Scale)>>>>],
                     [type |-> "Point", coordinates |-> <<JsonNull, Num(Scale)>>],
                     [type |-> "Feature"],
                     [type |-> "Point"],
                     JsonNull}}

HarnessIdle == pc = "ui" /\ arg = NoResult /\ res = NoResult /\ res2 = NoResult

InitUI ==
    /\ HarnessIdle
    /\ tool \in Tools
    /\ converterType = IF tool = "CoordinateConverter" THEN "wgs84-utm" ELSE "wkt-geojson"
    /\ mode = "wkt-to-geojson"
    /\ wktInput = <<>> /\ geojsonInput = EmptyText /\ wktError = <<>>
    /\ lastOk = NoResult /\ lastFailed = FALSE

\* the field that shows the result in the current mode
OutputField == IF mode = "wkt-to-geojson" THEN geojsonInput ELSE wktInput

\* the value of an output field the user cannot edit and no Convert has set
EmptyOutput == IF mode = "wkt-to-geojson" THEN EmptyText ELSE <<>>

\* the WKT form is on screen
WktFormShown == tool \in Tools /\ converterType = "wkt-geojson"

\* CoordinateConverter: the converter type <select>
SelectConverterType(t) ==
    /\ tool = "CoordinateConverter"
    /\ converterType' = t
    /\ wktInput' = <<>> /\ geojsonInput' = EmptyText /\ wktError' = <<>>
    /\ lastOk' = NoResult /\ lastFailed' = FALSE
    /\ UNCHANGED <<pc, arg, res, res2, tool, mode>>

\* the Switch / Switch Mode button
SwitchMode ==
    /\ WktFormShown
    /\ mode' = IF mode = "wkt-to-geojson" THEN "geojson-to-wkt" ELSE "wkt-to-geojson"
    /\ wktInput' = <<>> /\ geojsonInput' = EmptyText /\ wktError' = <<>>
    /\ lastOk' = NoResult /\ lastFailed' = FALSE
    /\ UNCHANGED <<pc, arg, res, res2, tool, converterType>>

\* typing into the WKT textarea (editable in wkt-to-geojson mode)
EditWktInput(text) ==
    /\ WktFormShown /\ mode = "wkt-to-geojson"
    /\ wktInput' = text
    /\ UNCHANGED <<pc, arg, res, res2, tool, converterType, mode, geojsonInput,
                   wktError, lastOk, lastFailed>>

\* typing into the GeoJSON textarea (editable in geojson-to-wkt mode)
EditGeojsonInput(text) ==
    /\ WktFormShown /\ mode = "geojson-to-wkt"
    /\ geojsonInput' = text
    /\ UNCHANGED <<pc, arg, res, res2, tool, converterType, mode, wktInput,
                   wktError, lastOk, lastFailed>>

\* JSON.stringify of a returned geometry; a throw passes through
StringifyOutcome(geojson) ==
    IF geojson.threw THEN geojson ELSE Return(JSONstringify(geojson.value))

\* the try block of convertWKTToGeoJSON: the text to show, or the throw
TryWKTToGeoJSON ==
    StringifyOutcome(IF tool = "CoordinateConverter"
                     THEN wktToGeoJSONExtended(wktInput) ELSE wktToGeoJSON(wktInput))

\* the serializer applied to a parsed document; a SyntaxError passes through
SerializeOutcome(geojson) ==
    IF geojson.threw THEN geojson
    ELSE IF tool = "CoordinateConverter"
    THEN geoJSONToWKTExtended(geojson.value) ELSE geoJSONToWKT(geojson.value)

\* the try block of convertGeoJSONToWKT
TryGeoJSONToWKT == SerializeOutcome(JSONparse(geojsonInput))

\* the catch block also clearing the output field
StoreGeoJSON_ClearsOutput(outcome) ==
    IF outcome.threw
    THEN /\ wktError' = outcome.message
         /\ lastFailed' = TRUE
         /\ geojsonInput' = EmptyText
         /\ UNCHANGED lastOk
    ELSE /\ geojsonInput' = outcome.value
         /\ wktError' = <<>>
         /\ lastOk' = outcome
         /\ lastFailed' = FALSE

\* setWktError(''), then setGeojsonInput(text) or, in the catch block,
\* setWktError(message)
StoreGeoJSON(outcome) ==
    IF outcome.threw
    THEN /\ wktError' = outcome.message
         /\ lastFailed' = TRUE
         /\ UNCHANGED <<geojsonInput, lastOk>>
    ELSE /\ geojsonInput' = outcome.value
         /\ wktError' = <<>>
         /\ lastOk' = outcome
         /\ lastFailed' = FALSE

\* setWktError(''), then setWktInput(wkt) or setWktError(message)
StoreWKT(outcome) ==
    IF outcome.threw
    THEN /\ wktError' = outcome.message
         /\ lastFailed' = TRUE
         /\ UNCHANGED <<wktInput, lastOk>>
    ELSE /\ wktInput' = outcome.value
         /\ wktError' = <<>>
         /\ lastOk' = outcome
         /\ lastFailed' = FALSE

convertWKTToGeoJSON ==
    /\ mode = "wkt-to-geojson"
    /\ StoreGeoJSON(TryWKTToGeoJSON)
    /\ UNCHANGED <<pc, arg, res, res2, tool, converterType, mode, wktInput>>

convertGeoJSONToWKT ==
    /\ mode = "geojson-to-wkt"
    /\ StoreWKT(TryGeoJSONToWKT)
    /\ UNCHANGED <<pc, arg, res, res2, tool, converterType, mode, geojsonInput>>

\* handleConvert on the WKT form
handleConvert ==
    /\ WktFormShown
    /\ (convertWKTToGeoJSON \/ convertGeoJSONToWKT)

NextUI ==
    \/ \E t \in ConverterTypes : SelectConverterType(t)
    \/ SwitchMode
    \/ \E text \in UIWktTexts : EditWktInput(text)
    \/ \E text \in UIJsonTexts : EditGeojsonInput(text)
    \/ handleConvert

SpecUI == InitUI /\ [][NextUI]_vars

(***************************************************************************)
(* The diff library (diff-match-patch), by its contract                     *)
(*                                                                          *)
(* A diff is a sequence of tuples <<operation, text>>, operation -1 for a   *)
(* deletion, 1 for an insertion, 0 for an equality.  diff_main returns a    *)
(* shortest edit script with the edits between two equalities merged, the   *)
(* deletion before the insertion.  Which of several shortest scripts it     *)
(* returns is left open: the model takes every one of them.                 *)
(***************************************************************************)
DIFF_DELETE == 0 - 1
DIFF_INSERT == 1
DIFF_EQUAL == 0

\* the edit scripts of a into b, one step per item, deletions before
\* insertions between two equalities
RECURSIVE Alignments(_, _, _)
Alignments(a, b, afterInsert) ==
    IF a = <<>> /\ b = <<>> THEN {<<>>}
    ELSE (IF a # <<>> /\ ~afterInsert
          THEN {<<<<DIFF_DELETE, Head(a)>>>> \o s : s \in Alignments(Tail(a), b, FALSE)}
          ELSE {})
         \cup
         (IF b # <<>>
          THEN {<<<<DIFF_INSERT, Head(b)>>>> \o s : s \in Alignments(a, Tail(b), TRUE)}
          ELSE {})
         \cup
         (IF a # <<>> /\ b # <<>> /\ Head(a) = Head(b)
          THEN {<<<<DIFF_EQUAL, Head(a)>>>> \o s : s \in Alignments(Tail(a), Tail(b), FALSE)}
          ELSE {})

\* number of items a script deletes or inserts
EditCount(steps) == Len(SelectSeq(steps, LAMBDA step : step[1] # DIFF_EQUAL))

\* the scripts with the fewest edits
Cheapest(scripts) ==
    {s \in scripts : \A t \in scripts : EditCount(s) <= EditCount(t)}

\* a step put in front of merged steps: it joins the first tuple when the
\* operation is the same
PushStep(step, merged) ==
    IF merged # <<>> /\ merged[1][1] = step[1]
    THEN <<<<step[1], <<step[2]>> \o merged[1][2]>>>> \o Tail(merged)
    ELSE <<<<step[1], <<step[2]>>>>>> \o merged

\* adjacent steps of one operation merged into one tuple <<operation, items>>
RECURSIVE MergeSteps(_)
MergeSteps(steps) ==
    IF steps = <<>> THEN <<>> ELSE PushStep(Head(steps), MergeSteps(Tail(steps)))

\* dmp.diff_main(text1, text2, false) on two sequences of items
ShortestScripts(a, b) == {MergeSteps(s) : s \in Cheapest(Alignments(a, b, FALSE))}

\* dmp.diff_main(text1, text2, false): the items are the characters
diff_main(text1, text2) == ShortestScripts(text1, text2)

\* the lines of a text, each with its line end; the last one may have none
\* (diff_linesToChars_ gives each distinct line one character)
RECURSIVE LinesOf(_)
LinesOf(text) ==
    IF text = <<>> THEN <<>>
    ELSE IF \E k \in 1..Len(text) : text[k] = "\n"
    THEN <<SubSeq(text, 1, Min({k \in 1..Len(text) : text[k] = "\n"}))>>
         \o LinesOf(SubSeq(text, Min({k \in 1..Len(text) : text[k] = "\n"}) + 1, Len(text)))
    ELSE <<text>>

\* the lines of a tuple put together again (diff_charsToLines_)
LinesToText(diffs) == [k \in 1..Len(diffs) |-> <<diffs[k][1], Join(diffs[k][2], <<>>)>>]

(***************************************************************************)
(* diffUtils.ts                                                             *)
(***************************************************************************)
\* diffLineMode(text1, text2): the diffs the library may return
diffLineMode(text1, text2) ==
    {LinesToText(d) : d \in ShortestScripts(LinesOf(text1), LinesOf(text2))}

\* every piece of split('\n') visited, an empty last one too
VisitedLines_All(lines) == lines

\* the lines the two loops visit in a text: every piece of split('\n') but an
\* empty last one (i < lines.length - 1 || (i === lines.length - 1 && line))
VisitedLines(lines) ==
    IF lines[Len(lines)] = <<>> THEN SubSeq(lines, 1, Len(lines) - 1) ELSE lines

LinesWithOperation(operation, lines) ==
    [k \in 1..Len(lines) |-> <<operation, lines[k]>>]

\* the pairs <<operation, line>> in the order the nested loops visit them
RECURSIVE LoopItems(_)
LoopItems(diffs) ==
    IF diffs = <<>> THEN <<>>
    ELSE LinesWithOperation(Head(diffs)[1], VisitedLines(Split(Head(diffs)[2], "\n")))
         \o LoopItems(Tail(diffs))

\* the loop body with one counter for both sides
PushDiffLine_OneCounter(acc, operation, line) ==
    IF operation = 1
    THEN [results |-> Append(acc.results,
                        [type |-> "added", text |-> line, newLineNumber |-> acc.oldLineNum]),
          oldLineNum |-> acc.oldLineNum + 1, newLineNum |-> acc.newLineNum]
    ELSE IF operation = 0 - 1
    THEN [results |-> Append(acc.results,
                        [type |-> "removed", text |-> line, oldLineNumber |-> acc.oldLineNum]),
          oldLineNum |-> acc.oldLineNum + 1, newLineNum |-> acc.newLineNum]
    ELSE [results |-> Append(acc.results,
                        [type |-> "unchanged", text |-> line,
                         oldLineNumber |-> acc.oldLineNum, newLineNumber |-> acc.oldLineNum]),
          oldLineNum |-> acc.oldLineNum + 1, newLineNum |-> acc.newLineNum]

\* the loop body with the types of added and removed lines exchanged
PushDiffLine_TypesExchanged(acc, operation, line) ==
    IF operation = 1
    THEN [results |-> Append(acc.results,
                        [type |-> "removed", text |-> line, oldLineNumber |-> acc.oldLineNum]),
          oldLineNum |-> acc.oldLineNum + 1, newLineNum |-> acc.newLineNum]
    ELSE IF operation = 0 - 1
    THEN [results |-> Append(acc.results,
                        [type |-> "added", text |-> line, newLineNumber |-> acc.newLineNum]),
          oldLineNum |-> acc.oldLineNum, newLineNum |-> acc.newLineNum + 1]
    ELSE [results |-> Append(acc.results,
                        [type |-> "unchanged", text |-> line,
                         oldLineNumber |-> acc.oldLineNum, newLineNumber |-> acc.newLineNum]),
          oldLineNum |-> acc.oldLineNum + 1, newLineNum |-> acc.newLineNum + 1]

\* the loop body of computeLineDiff: acc holds results, oldLineNum, newLineNum
PushDiffLine(acc, operation, line) ==
    IF operation = 1
    THEN [results |-> Append(acc.results,
                        [type |-> "added", text |-> line, newLineNumber |-> acc.newLineNum]),
          oldLineNum |-> acc.oldLineNum, newLineNum |-> acc.newLineNum + 1]
    ELSE IF operation = 0 - 1
    THEN [results |-> Append(acc.results,
                        [type |-> "removed", text |-> line, oldLineNumber |-> acc.oldLineNum]),
          oldLineNum |-> acc.oldLineNum + 1, newLineNum |-> acc.newLineNum]
    ELSE [results |-> Append(acc.results,
                        [type |-> "unchanged", text |-> line,
                         oldLineNumber |-> acc.oldLineNum, newLineNumber |-> acc.newLineNum]),
          oldLineNum |-> acc.oldLineNum + 1, newLineNum |-> acc.newLineNum + 1]

RECURSIVE LineDiffLoop(_, _)
LineDiffLoop(items, acc) ==
    IF items = <<>> THEN acc
    ELSE LineDiffLoop(Tail(items), PushDiffLine(acc, Head(items)[1], Head(items)[2]))

\* computeLineDiff(oldText, newText), diffs being what diffLineMode returned
computeLineDiff(diffs) ==
    LineDiffLoop(LoopItems(diffs),
                 [results |-> <<>>, oldLineNum |-> 1, newLineNum |-> 1]).results

\* decimal digits of a counter
CounterToString(n) == IF n < 0 THEN <<"-">> \o NatToString(0 - n) ELSE NatToString(n)

\* `@@ -${hunkStartOld},${oldLineNum - hunkStartOld} +${hunkStartNew},${newLineNum - hunkStartNew} @@\n`
\* followed by hunkLines.join('\n') + '\n'
HunkText(acc) ==
    <<"@", "@", " ", "-">> \o CounterToString(acc.hunkStartOld) \o <<",">>
      \o CounterToString(acc.oldLineNum - acc.hunkStartOld) \o <<" ", "+">>
      \o CounterToString(acc.hunkStartNew) \o <<",">>
      \o CounterToString(acc.newLineNum - acc.hunkStartNew) \o <<" ", "@", "@", "\n">>
      \o Join(acc.hunkLines, <<"\n">>) \o <<"\n">>

\* the hunk written without looking whether it holds a line
OutputWithHunk_Always(acc) == acc.output \o HunkText(acc)

\* output with the collected hunk, when there is one
OutputWithHunk(acc) ==
    IF acc.hunkLines # <<>> THEN acc.output \o HunkText(acc) ELSE acc.output

\* the loop body writing the hunk only at the end of the diff
PushUnifiedLine_NoFlush(acc, operation, line) ==
    IF operation = 1
    THEN [acc EXCEPT !.hunkLines = Append(@, <<"+">> \o line), !.newLineNum = @ + 1]
    ELSE IF operation = 0 - 1
    THEN [acc EXCEPT !.hunkLines = Append(@, <<"-">> \o line), !.oldLineNum = @ + 1]
    ELSE [acc EXCEPT !.oldLineNum = @ + 1, !.newLineNum = @ + 1]

\* the loop body taking the counters themselves as the next hunk's start
PushUnifiedLine_StartAtCounter(acc, operation, line) ==
    IF operation = 1
    THEN [acc EXCEPT !.hunkLines = Append(@, <<"+">> \o line), !.newLineNum = @ + 1]
    ELSE IF operation = 0 - 1
    THEN [acc EXCEPT !.hunkLines = Append(@, <<"-">> \o line), !.oldLineNum = @ + 1]
    ELSE [output |-> OutputWithHunk(acc),
          hunkLines |-> <<>>,
          hunkStartOld |-> acc.oldLineNum,
          hunkStartNew |-> acc.newLineNum,
          oldLineNum |-> acc.oldLineNum + 1,
          newLineNum |-> acc.newLineNum + 1]

\* the loop body of formatUnifiedDiff: acc holds output, oldLineNum,
\* newLineNum, hunkStartOld, hunkStartNew and hunkLines
PushUnifiedLine(acc, operation, line) ==
    IF operation = 1
    THEN [acc EXCEPT !.hunkLines = Append(@, <<"+">> \o line), !.newLineNum = @ + 1]
    ELSE IF operation = 0 - 1
    THEN [acc EXCEPT !.hunkLines = Append(@, <<"-">> \o line), !.oldLineNum = @ + 1]
    ELSE [output |-> OutputWithHunk(acc),
          hunkLines |-> <<>>,
          hunkStartOld |-> acc.oldLineNum + 1,
          hunkStartNew |-> acc.newLineNum + 1,
          oldLineNum |-> acc.oldLineNum + 1,
          newLineNum |-> acc.newLineNum + 1]

RECURSIVE UnifiedLoop(_, _)
UnifiedLoop(items, acc) ==
    IF items = <<>> THEN acc
    ELSE UnifiedLoop(Tail(items), PushUnifiedLine(acc, Head(items)[1], Head(items)[2]))

\* formatUnifiedDiff(oldText, newText, oldFile, newFile), diffs being what
\* diffLineMode returned
formatUnifiedDiff(diffs, oldFile, newFile) ==
    OutputWithHunk(
        UnifiedLoop(LoopItems(diffs),
                    [output |-> <<"-", "-", "-", " ">> \o oldFile \o <<"\n", "+", "+", "+", " ">>
                                  \o newFile \o <<"\n">>,
                     oldLineNum |-> 1, newLineNum |-> 1,
                     hunkStartOld |-> 1, hunkStartNew |-> 1,
                     hunkLines |-> <<>>]))

\* the default file names
DefaultOldFile == <<"o", "l", "d">>
DefaultNewFile == <<"n", "e", "w">>

\* text.replace(/c/g, replacement)
RECURSIVE ReplaceAll(_, _, _)
ReplaceAll(text, c, replacement) ==
    IF text = <<>> THEN <<>>
    ELSE (IF Head(text) = c THEN replacement ELSE <<Head(text)>>)
         \o ReplaceAll(Tail(text), c, replacement)

\* the escapes in another order: the ampersand last
EscapeHTML_AmpersandLast(text) ==
    ReplaceAll(
        ReplaceAll(
            ReplaceAll(
                ReplaceAll(text, "<", <<"&", "l", "t", ";">>),
                ">", <<"&", "g", "t", ";">>),
            "\n", <<"<", "b", "r", ">">>),
        "&", <<"&", "a", "m", "p", ";">>)

\* .replace(/&/g, '&amp;').replace(/</g, '&lt;').replace(/>/g, '&gt;').replace(/\n/g, '<br>')
EscapeHTML(text) ==
    ReplaceAll(
        ReplaceAll(
            ReplaceAll(
                ReplaceAll(text, "&", <<"&", "a", "m", "p", ";">>),
                "<", <<"&", "l", "t", ";">>),
            ">", <<"&", "g", "t", ";">>),
        "\n", <<"<", "b", "r", ">">>)

SpanOpen(class) ==
    <<"<", "s", "p", "a", "n", " ", "c", "l", "a", "s", "s", "=", "\"">> \o class \o <<"\"", ">">>

SpanClose == <<"<", "/", "s", "p", "a", "n", ">">>

ClassAdded == <<"d", "i", "f", "f", "-", "a", "d", "d", "e", "d">>
ClassRemoved == <<"d", "i", "f", "f", "-", "r", "e", "m", "o", "v", "e", "d">>
ClassUnchanged == <<"d", "i", "f", "f", "-", "u", "n", "c", "h", "a", "n", "g", "e", "d">>

\* the class by operation
SpanClass(operation) ==
    IF operation = 1 THEN ClassAdded
    ELSE IF operation = 0 - 1 THEN ClassRemoved
    ELSE ClassUnchanged

\* `<span class="...">${escaped}</span>`
SpanOf(operation, text) == SpanOpen(SpanClass(operation)) \o EscapeHTML(text) \o SpanClose

RECURSIVE SpansOf(_)
SpansOf(diffs) ==
    IF diffs = <<>> THEN <<>>
    ELSE SpanOf(Head(diffs)[1], Head(diffs)[2]) \o SpansOf(Tail(diffs))

HTMLOpen == <<"<", "d", "i", "v", " ", "c", "l", "a", "s", "s", "=", "\"", "d", "i", "f", "f",
              "-", "c", "o", "n", "t", "a", "i", "n", "e", "r", "\"", ">", "\n">>

HTMLClose == <<"\n", "<", "/", "d", "i", "v", ">">>

\* formatHTMLDiff(oldText, newText), diffs being what diff_main returned after
\* diff_cleanupSemantic
formatHTMLDiff(diffs) == HTMLOpen \o SpansOf(diffs) \o HTMLClose

\* every diff of a into b: tuples with non-empty texts, in any order and
\* split anywhere, whose equalities and deletions make up a and whose
\* equalities and insertions make up b
RECURSIVE ValidDiffs(_, _)
ValidDiffs(a, b) ==
    IF a = <<>> /\ b = <<>> THEN {<<>>}
    ELSE UNION {{<<<<DIFF_DELETE, SubSeq(a, 1, k)>>>> \o rest :
                    rest \in ValidDiffs(SubSeq(a, k + 1, Len(a)), b)} : k \in 1..Len(a)}
         \cup
         UNION {{<<<<DIFF_INSERT, SubSeq(b, 1, k)>>>> \o rest :
                    rest \in ValidDiffs(a, SubSeq(b, k + 1, Len(b)))} : k \in 1..Len(b)}
         \cup
         UNION {{<<<<DIFF_EQUAL, SubSeq(a, 1, k)>>>> \o rest :
                    rest \in ValidDiffs(SubSeq(a, k + 1, Len(a)), SubSeq(b, k + 1, Len(b)))} :
                  k \in {j \in 1..Min({Len(a), Len(b)}) : SubSeq(a, 1, j) = SubSeq(b, 1, j)}}

\* an end of x is a start of y
Overlaps(x, y) ==
    \E n \in 1..Min({Len(x), Len(y)}) : SubSeq(x, Len(x) - n + 1, Len(x)) = SubSeq(y, 1, n)

\* diff_cleanupSemantic finds nothing to do: no equality stands between two
\* edits, no edit stands between two equalities, and no deletion next to an
\* insertion shares an end with it
CleanupIdle(diffs) ==
    /\ \A i \in 2..(Len(diffs) - 1) :
          /\ diffs[i][1] # DIFF_EQUAL
          /\ ~(diffs[i - 1][1] = DIFF_EQUAL /\ diffs[i + 1][1] = DIFF_EQUAL)
    /\ \A i \in 1..(Len(diffs) - 1) :
          diffs[i][1] # DIFF_EQUAL /\ diffs[i + 1][1] # DIFF_EQUAL
            => ~Overlaps(diffs[i][2], diffs[i + 1][2]) /\ ~Overlaps(diffs[i + 1][2], diffs[i][2])

\* dmp.diff_cleanupSemantic(diffs) on a diff of text1 into text2: the diff
\* itself when the cleanup finds nothing to do, otherwise some diff of the
\* same two texts
diff_cleanupSemantic(diffs, text1, text2) ==
    IF CleanupIdle(diffs) THEN {diffs} ELSE ValidDiffs(text1, text2)

\* the texts computeDiff pushes for one tuple: every line with its line end
\* put back, and the last piece when it is not empty
ResultTexts(lines) ==
    [k \in 1..(Len(lines) - 1) |-> lines[k] \o <<"\n">>]
      \o (IF lines[Len(lines)] # <<>> THEN <<lines[Len(lines)]>> ELSE <<>>)

RECURSIVE ResultItems(_)
ResultItems(diffs) ==
    IF diffs = <<>> THEN <<>>
    ELSE LinesWithOperation(Head(diffs)[1], ResultTexts(Split(Head(diffs)[2], "\n")))
         \o ResultItems(Tail(diffs))

\* the loop body of computeDiff: acc holds results and lineNumber
PushDiffResult(acc, operation, text) ==
    IF operation = 1
    THEN [acc EXCEPT !.results = Append(@, [type |-> "added", text |-> text,
                                            lineNumber |-> acc.lineNumber])]
    ELSE IF operation = 0 - 1
    THEN [acc EXCEPT !.results = Append(@, [type |-> "removed", text |-> text,
                                            lineNumber |-> acc.lineNumber])]
    ELSE [results |-> Append(acc.results, [type |-> "unchanged", text |-> text,
                                           lineNumber |-> acc.lineNumber]),
          lineNumber |-> acc.lineNumber + 1]

RECURSIVE DiffLoop(_, _)
DiffLoop(items, acc) ==
    IF items = <<>> THEN acc
    ELSE DiffLoop(Tail(items), PushDiffResult(acc, Head(items)[1], Head(items)[2]))

\* computeDiff(oldText, newText, mode), diffs being what the switch on mode
\* assigned
computeDiff(diffs) ==
    DiffLoop(ResultItems(diffs), [results |-> <<>>, lineNumber |-> 1]).results

(***************************************************************************)
(* The diff functions applied to pairs of texts                             *)
(***************************************************************************)
DiffWords == {<<"a">>, <<"b">>, <<>>}

\* texts of up to MaxLines lines, with and without a final line end
LineTexts ==
    {<<>>} \cup {Join(ls, <<"\n">>) \o end :
                   ls \in SeqsUpTo(DiffWords, MaxLines), end \in {<<>>, <<"\n">>}}

\* the example of the specification, two hunks, a middle line removed
WrittenLinePairs ==
    {<<<<"a", "\n", "b", "\n", "c">>, <<"a", "\n", "x", "\n", "c">>>>,
     <<<<"a", "\n", "b", "\n", "c", "\n", "d", "\n", "e">>,
       <<"a", "\n", "x", "\n", "c", "\n", "y", "\n", "e">>>>,
     <<<<"a", "\n", "b", "\n", "c", "\n">>, <<"a", "\n", "c", "\n">>>>,
     <<<<"a", "\n", "b", "\n", "c">>, <<"a", "\n", "b", "\n", "c">>>>}

DiffLinePairs == (LineTexts \X LineTexts) \cup WrittenLinePairs

HtmlChars == {"a", "b", "&", "<", ">", "\n"}

\* texts of up to MaxChars characters; a text of more than two characters is
\* made of the letters only
CharTexts ==
    {<<>>} \cup {t \in SeqsUpTo(HtmlChars, MaxChars) :
                   Len(t) <= 2 \/ \A k \in 1..Len(t) : t[k] \in {"a", "b"}}

NewCharTexts ==
    {<<>>, <<"a">>, <<"a", "c">>, <<"<">>, <<"a", "&">>, <<"a", "\n">>,
     <<"<", "b", ">">>, <<"&", "l", "t", ";">>}

CharPairs == CharTexts \X NewCharTexts

\* a call of the line functions: the two texts and the diff the library
\* returns for them
LineCalls ==
    UNION {{[oldText |-> p[1], newText |-> p[2], lineDiffs |-> d] :
               d \in diffLineMode(p[1], p[2])} : p \in DiffLinePairs}

\* the diffs after diff_cleanupSemantic for a diff of the characters
SemanticCalls(oldText, newText, lineDiffs, charDiffs) ==
    {[oldText |-> oldText, newText |-> newText, lineDiffs |-> lineDiffs,
      charDiffs |-> charDiffs, semanticDiffs |-> sd] :
        sd \in diff_cleanupSemantic(charDiffs, oldText, newText)}

\* a call of any of the functions on short texts: also the diff of the
\* characters, before and after diff_cleanupSemantic
CharCalls ==
    UNION {UNION {UNION {SemanticCalls(p[1], p[2], ld, cd) :
                            cd \in diff_main(p[1], p[2])} :
                     ld \in diffLineMode(p[1], p[2])} : p \in CharPairs}

DiffModes == {"line", "word", "char"}

InitDiff ==
    /\ pc = "texts" /\ arg \in LineCalls \cup CharCalls
    /\ res = NoResult /\ res2 = NoResult
    /\ UIIdle

CallComputeLineDiff ==
    /\ pc = "texts"
    /\ res' = Return(computeLineDiff(arg.lineDiffs))
    /\ pc' = "computeLineDiff"
    /\ UNCHANGED <<arg, res2>> /\ UNCHANGED uiVars

CallFormatUnifiedDiff ==
    /\ pc = "texts"
    /\ res' = Return(formatUnifiedDiff(arg.lineDiffs, DefaultOldFile, DefaultNewFile))
    /\ pc' = "formatUnifiedDiff"
    /\ UNCHANGED <<arg, res2>> /\ UNCHANGED uiVars

CallFormatHTMLDiff ==
    /\ pc = "texts" /\ "semanticDiffs" \in DOMAIN arg
    /\ res' = Return(formatHTMLDiff(arg.semanticDiffs))
    /\ pc' = "formatHTMLDiff"
    /\ UNCHANGED <<arg, res2>> /\ UNCHANGED uiVars

\* the diffs the switch on mode assigns
DiffsByMode(m) ==
    IF m = "line" THEN arg.lineDiffs
    ELSE IF m = "word" THEN arg.semanticDiffs
    ELSE arg.charDiffs

CallComputeDiff(m) ==
    /\ pc = "texts" /\ (m = "line" \/ "charDiffs" \in DOMAIN arg)
    /\ res' = Return(computeDiff(DiffsByMode(m)))
    /\ res2' = [mode |-> m]
    /\ pc' = "computeDiff"
    /\ UNCHANGED arg /\ UNCHANGED uiVars

NextDiff ==
    \/ CallComputeLineDiff
    \/ CallFormatUnifiedDiff
    \/ CallFormatHTMLDiff
    \/ \E m \in DiffModes : CallComputeDiff(m)

SpecDiff == InitDiff /\ [][NextDiff]_vars

(***************************************************************************)
(* DiffViewer.tsx: the component's state is res = [diff, diffMode,          *)
(* viewMode], arg holds the two text areas and the diff the library         *)
(* returns for them, res2 the last toast                                    *)
(***************************************************************************)
ViewModes == {"side-by-side", "unified"}

\* calculateDiff with the test !oldText || !newText
calculateDiff_EitherEmpty(state, call) ==
    IF call.oldText = <<>> \/ call.newText = <<>>
    THEN [state |-> state, toast |-> "error"]
    ELSE [state |-> [state EXCEPT !.diff = computeLineDiff(call.lineDiffs)],
          toast |-> "success"]

\* calculateDiff: the state and the toast after it
calculateDiff(state, call) ==
    IF call.oldText = <<>> /\ call.newText = <<>>
    THEN [state |-> state, toast |-> "error"]
    ELSE [state |-> [state EXCEPT !.diff = computeLineDiff(call.lineDiffs)],
          toast |-> "success"]

\* onChange of the mode selector: setDiffMode(value), setDiff([])
\* the selector keeping the diff
ChangeDiffMode_KeepDiff(state, value) == [state EXCEPT !.diffMode = value]

ChangeDiffMode(state, value) == [state EXCEPT !.diffMode = value, !.diff = <<>>]

\* what the text areas may hold
ViewerTexts == {<<>>, <<"a">>, <<"b">>, <<"a", "\n", "b">>, <<"a", "\n">>}

ViewerCalls ==
    UNION {{[oldText |-> o, newText |-> n, lineDiffs |-> d] : d \in diffLineMode(o, n)} :
              o \in ViewerTexts, n \in ViewerTexts}

\* useState('') twice, useState([]), useState('line'), useState('side-by-side')
InitViewer ==
    /\ pc = "DiffViewer"
    /\ arg \in {c \in ViewerCalls : c.oldText = <<>> /\ c.newText = <<>>}
    /\ res = [diff |-> <<>>, diffMode |-> "line", viewMode |-> "side-by-side"]
    /\ res2 = [toast |-> "none"]
    /\ UIIdle

\* onChange of the Original Text area
SetOldText ==
    /\ pc \in {"DiffViewer", "setText", "calculateDiff", "setDiffMode", "setViewMode"}
    /\ \E c \in ViewerCalls : c.newText = arg.newText /\ arg' = c
    /\ pc' = "setText"
    /\ UNCHANGED <<res, res2>> /\ UNCHANGED uiVars

\* onChange of the New Text area
SetNewText ==
    /\ pc \in {"DiffViewer", "setText", "calculateDiff", "setDiffMode", "setViewMode"}
    /\ \E c \in ViewerCalls : c.oldText = arg.oldText /\ arg' = c
    /\ pc' = "setText"
    /\ UNCHANGED <<res, res2>> /\ UNCHANGED uiVars

\* the Calculate button
CalculateDiff ==
    /\ pc \in {"DiffViewer", "setText", "calculateDiff", "setDiffMode", "setViewMode"}
    /\ res' = calculateDiff(res, arg).state
    /\ res2' = [toast |-> calculateDiff(res, arg).toast]
    /\ pc' = "calculateDiff"
    /\ UNCHANGED arg /\ UNCHANGED uiVars

\* the Mode selector
SelectDiffMode(value) ==
    /\ pc \in {"DiffViewer", "setText", "calculateDiff", "setDiffMode", "setViewMode"}
    /\ res' = ChangeDiffMode(res, value)
    /\ pc' = "setDiffMode"
    /\ UNCHANGED <<arg, res2>> /\ UNCHANGED uiVars

\* the View selector
SelectViewMode(value) ==
    /\ pc \in {"DiffViewer", "setText", "calculateDiff", "setDiffMode", "setViewMode"}
    /\ res' = [res EXCEPT !.viewMode = value]
    /\ pc' = "setViewMode"
    /\ UNCHANGED <<arg, res2>> /\ UNCHANGED uiVars

NextViewer ==
    \/ SetOldText
    \/ SetNewText
    \/ CalculateDiff
    \/ \E value \in DiffModes : SelectDiffMode(value)
    \/ \E value \in ViewModes : SelectViewMode(value)

SpecViewer == InitViewer /\ [][NextViewer]_vars

(***************************************************************************)
(* JSON values whose kind the code tests (typeof, Array.isArray, !value):   *)
(* a record with the kind in t                                              *)
(***************************************************************************)
JUndefined == [t |-> "undefined"]
JNull == [t |-> "null"]
JBool(b) == [t |-> "boolean", bool |-> b]
JNum(n) == [t |-> "number", num |-> n]
JStr(s) == [t |-> "string", str |-> s]
JArr(items) == [t |-> "array", items |-> items]
\* members: the pairs <<key, value>> in insertion order
JObj(members) == [t |-> "object", members |-> members]

\* Array.isArray(v)
IsArray(v) == v.t = "array"

\* !v
Falsy(v) ==
    \/ v.t \in {"undefined", "null"}
    \/ v.t = "boolean" /\ ~v.bool
    \/ v.t = "number" /\ (v.num.nan \/ v.num.val = 0)
    \/ v.t = "string" /\ v.str = ""

\* v[key] of a value that is not null or undefined
Get(v, key) ==
    IF v.t = "object" /\ \E k \in 1..Len(v.members) : v.members[k][1] = key
    THEN v.members[CHOOSE k \in 1..Len(v.members) : v.members[k][1] = key][2]
    ELSE JUndefined

\* v[i] of a value that is not null or undefined, i counted from 0
At(v, i) == IF v.t = "array" /\ i < Len(v.items) THEN v.items[i + 1] ELSE JUndefined

\* a === b; two arrays or two objects are never the same object here
StrictEqual(a, b) ==
    /\ a.t = b.t
    /\ a.t \notin {"array", "object"}
    /\ a.t = "number" => ~a.num.nan /\ ~b.num.nan
    /\ a = b

\* Number(v) for the values that stand where a number is expected: numbers,
\* null, undefined, booleans (no generated input has a string, an array or an
\* object there)
ToNumber(v) ==
    CASE v.t = "number" -> v.num
      [] v.t = "null" -> Num(0)
      [] v.t = "boolean" -> IF v.bool THEN Num(Scale) ELSE Num(0)
      [] OTHER -> NaN

\* an index or a type written into a message (indices stay below 10)
IndexText(i) == Digits[i + 1]

(***************************************************************************)
(* validation.ts                                                            *)
(***************************************************************************)
validateCoordinates(lat, lon) ==
    IF ToNumber(lat).nan \/ ToNumber(lon).nan
    THEN [valid |-> FALSE, error |-> "Coordinates must be numbers"]
    ELSE IF ToNumber(lat).val < 0 - 90 * Scale \/ ToNumber(lat).val > 90 * Scale
    THEN [valid |-> FALSE, error |-> "Latitude must be between -90 and 90"]
    ELSE IF ToNumber(lon).val < 0 - 180 * Scale \/ ToNumber(lon).val > 180 * Scale
    THEN [valid |-> FALSE, error |-> "Longitude must be between -180 and 180"]
    ELSE [valid |-> TRUE]

\* what pushing the result of validateCoordinates behind a prefix adds
CoordinateErrors(prefix, coordValidation) ==
    IF coordValidation.valid THEN <<>> ELSE <<prefix \o <<coordValidation.error>>>>

\* case 'Point'
PointErrors(coordinates) ==
    IF ~IsArray(coordinates) \/ Len(coordinates.items) < 2
    THEN <<<<"Point must have coordinates array with at least 2 elements">>>>
    ELSE CoordinateErrors(<<>>, validateCoordinates(At(coordinates, 1), At(coordinates, 0)))

\* the callback of case 'LineString' for one coordinate
LineCoordinateErrors(coord, index) ==
    IF ~IsArray(coord) \/ Len(coord.items) < 2
    THEN <<<<"Coordinate ", IndexText(index), " is invalid">>>>
    ELSE CoordinateErrors(<<"Coordinate ", IndexText(index), ": ">>,
                          validateCoordinates(At(coord, 1), At(coord, 0)))

RECURSIVE LineStringLoop(_, _)
LineStringLoop(coords, index) ==
    IF index >= Len(coords) THEN <<>>
    ELSE LineCoordinateErrors(coords[index + 1], index) \o LineStringLoop(coords, index + 1)

\* case 'LineString'
LineStringErrors(coordinates) ==
    IF ~IsArray(coordinates) \/ Len(coordinates.items) < 2
    THEN <<<<"LineString must have at least 2 coordinates">>>>
    ELSE LineStringLoop(coordinates.items, 0)

\* the inner callback of case 'Polygon' for one coordinate of a ring
RingCoordinateErrors(coord, ringIndex, coordIndex) ==
    IF ~IsArray(coord) \/ Len(coord.items) < 2
    THEN <<<<"Ring ", IndexText(ringIndex), ", coordinate ", IndexText(coordIndex),
             " is invalid">>>>
    ELSE CoordinateErrors(<<"Ring ", IndexText(ringIndex), ", coordinate ",
                            IndexText(coordIndex), ": ">>,
                          validateCoordinates(At(coord, 1), At(coord, 0)))

RECURSIVE RingLoop(_, _, _)
RingLoop(ring, ringIndex, coordIndex) ==
    IF coordIndex >= Len(ring) THEN <<>>
    ELSE RingCoordinateErrors(ring[coordIndex + 1], ringIndex, coordIndex)
         \o RingLoop(ring, ringIndex, coordIndex + 1)

\* the message of an open ring
NotClosed(ringIndex) ==
    <<"Ring ", IndexText(ringIndex), " is not closed (first and last coordinates must match)">>

\* a closure test that looks at the longitude only
ClosureErrors_LongitudeOnly(first, last, ringIndex) ==
    IF ~StrictEqual(At(first, 0), At(last, 0))
    THEN <<NotClosed(ringIndex)>> ELSE <<>>

\* first[0] !== last[0] || first[1] !== last[1]
ClosureErrors(first, last, ringIndex) ==
    IF ~StrictEqual(At(first, 0), At(last, 0)) \/ ~StrictEqual(At(first, 1), At(last, 1))
    THEN <<NotClosed(ringIndex)>> ELSE <<>>

\* the callback of case 'Polygon' for one ring: the errors it pushes, and
\* whether it throws (first[0] of a first or last coordinate that is null)
RingErrors(ring, ringIndex) ==
    IF ~IsArray(ring) \/ Len(ring.items) < 4
    THEN [threw |-> FALSE,
          errors |-> <<<<"Ring ", IndexText(ringIndex), " must have at least 4 coordinates">>>>]
    ELSE IF At(ring, 0).t \in {"null", "undefined"}
            \/ At(ring, Len(ring.items) - 1).t \in {"null", "undefined"}
    THEN [threw |-> TRUE, errors |-> <<>>]
    ELSE [threw |-> FALSE,
          errors |-> ClosureErrors(At(ring, 0), At(ring, Len(ring.items) - 1), ringIndex)
                       \o RingLoop(ring.items, ringIndex, 0)]

\* the errors of the rings after one ring's: none when that ring threw
AfterRing(ringResult, restResult) ==
    IF ringResult.threw THEN ringResult
    ELSE [threw |-> restResult.threw, errors |-> ringResult.errors \o restResult.errors]

RECURSIVE PolygonLoop(_, _)
PolygonLoop(rings, ringIndex) ==
    IF ringIndex >= Len(rings) THEN [threw |-> FALSE, errors |-> <<>>]
    ELSE AfterRing(RingErrors(rings[ringIndex + 1], ringIndex),
                   PolygonLoop(rings, ringIndex + 1))

\* case 'Polygon'
PolygonErrors(coordinates) ==
    IF ~IsArray(coordinates) \/ Len(coordinates.items) = 0
    THEN [threw |-> FALSE, errors |-> <<<<"Polygon must have at least one ring">>>>]
    ELSE PolygonLoop(coordinates.items, 0)

(***************************************************************************)
(* Turf.js (external library): turf.polygon throws on a ring with fewer     *)
(* than 4 positions and on a ring whose first and last position differ in   *)
(* length or in any element; turf.feature wraps its argument and never      *)
(* throws                                                                   *)
(***************************************************************************)
TypeErrorText == "TypeError"

\* the message turf.polygon throws for one ring, <<>> when it accepts the ring
TurfRingError(ring) ==
    IF ~IsArray(ring) THEN <<TypeErrorText>>
    ELSE IF Len(ring.items) < 4
    THEN <<"Each LinearRing of a Polygon must have 4 or more Positions.">>
    ELSE IF ~IsArray(At(ring, 0)) \/ ~IsArray(At(ring, Len(ring.items) - 1))
    THEN <<TypeErrorText>>
    ELSE IF Len(At(ring, Len(ring.items) - 1).items) # Len(At(ring, 0).items)
            \/ \E j \in 0..(Len(At(ring, 0).items) - 1) :
                   ~StrictEqual(At(At(ring, Len(ring.items) - 1), j), At(At(ring, 0), j))
    THEN <<"First and last Position are not equivalent.">>
    ELSE <<>>

RECURSIVE TurfRingsError(_, _)
TurfRingsError(rings, k) ==
    IF k > Len(rings) THEN <<>>
    ELSE IF TurfRingError(rings[k]) # <<>> THEN TurfRingError(rings[k])
    ELSE TurfRingsError(rings, k + 1)

\* the message turf.polygon(coordinates) throws, <<>> when it returns
turf_polygon(coordinates) ==
    IF ~IsArray(coordinates) THEN <<TypeErrorText>>
    ELSE TurfRingsError(coordinates.items, 1)

\* whether turf.feature(geojson) throws
turf_feature_throws(geojson) == FALSE

(***************************************************************************)
(* validation.ts: validateGeometry                                          *)
(***************************************************************************)
\* errors.map((e) => `Feature ${index}: ${e}`)
RECURSIVE PrefixErrors(_, _)
PrefixErrors(prefix, errors) ==
    IF errors = <<>> THEN <<>>
    ELSE <<prefix \o Head(errors)>> \o PrefixErrors(prefix, Tail(errors))

\* the "Additional validation using Turf.js" block
AdditionalErrors(geojson) ==
    IF StrictEqual(Get(geojson, "type"), JStr("Polygon"))
       /\ turf_polygon(Get(geojson, "coordinates")) # <<>>
    THEN <<<<"Geometry validation error: ">> \o turf_polygon(Get(geojson, "coordinates"))>>
    ELSE <<>>

\* the errors after the outer try: those of the switch and, when the switch
\* did not throw, those of the additional validation; the catch's otherwise
ErrorsAfterTry(switched, geojson) ==
    IF switched.threw
    THEN switched.errors \o <<<<"Validation error: ", TypeErrorText>>>>
    ELSE switched.errors \o AdditionalErrors(geojson)

ValidationResult(errors) == [valid |-> Len(errors) = 0, errors |-> errors]

\* case 'Feature' without the call for the geometry
FeatureErrors_GeometryUnchecked(geojson) ==
    IF Falsy(Get(geojson, "geometry"))
    THEN <<<<"Feature must have a geometry property">>>>
    ELSE <<>>

RECURSIVE validateGeometry(_)
\* case 'Feature'
FeatureErrors(geojson) ==
    IF Falsy(Get(geojson, "geometry"))
    THEN <<<<"Feature must have a geometry property">>>>
    ELSE validateGeometry(Get(geojson, "geometry")).errors

\* the callback of case 'FeatureCollection' for one feature
CollectionFeatureErrors(feature, index) ==
    IF feature.t \in {"null", "undefined"} THEN [threw |-> TRUE, errors |-> <<>>]
    ELSE IF Falsy(Get(feature, "geometry"))
    THEN [threw |-> FALSE,
          errors |-> <<<<"Feature ", IndexText(index), " is missing geometry">>>>]
    ELSE [threw |-> FALSE,
          errors |-> PrefixErrors(<<"Feature ", IndexText(index), ": ">>,
                                  validateGeometry(Get(feature, "geometry")).errors)]

RECURSIVE FeaturesLoop(_, _)
FeaturesLoop(features, index) ==
    IF index >= Len(features) THEN [threw |-> FALSE, errors |-> <<>>]
    ELSE AfterRing(CollectionFeatureErrors(features[index + 1], index),
                   FeaturesLoop(features, index + 1))

\* case 'FeatureCollection'
FeatureCollectionErrors(geojson) ==
    IF ~IsArray(Get(geojson, "features"))
    THEN [threw |-> FALSE, errors |-> <<<<"FeatureCollection must have a features array">>>>]
    ELSE FeaturesLoop(Get(geojson, "features").items, 0)

\* default:
DefaultErrors(geojson) ==
    IF turf_feature_throws(geojson)
    THEN <<<<"Unsupported or invalid geometry type: ", Get(geojson, "type").str>>>>
    ELSE <<>>

\* switch (geojson.type)
SwitchErrors(geojson) ==
    CASE StrictEqual(Get(geojson, "type"), JStr("Point")) ->
           [threw |-> FALSE, errors |-> PointErrors(Get(geojson, "coordinates"))]
      [] StrictEqual(Get(geojson, "type"), JStr("LineString")) ->
           [threw |-> FALSE, errors |-> LineStringErrors(Get(geojson, "coordinates"))]
      [] StrictEqual(Get(geojson, "type"), JStr("Polygon")) ->
           PolygonErrors(Get(geojson, "coordinates"))
      [] StrictEqual(Get(geojson, "type"), JStr("Feature")) ->
           [threw |-> FALSE, errors |-> FeatureErrors(geojson)]
      [] StrictEqual(Get(geojson, "type"), JStr("FeatureCollection")) ->
           FeatureCollectionErrors(geojson)
      [] OTHER -> [threw |-> FALSE, errors |-> DefaultErrors(geojson)]

validateGeometry(geojson) ==
    IF Falsy(geojson)
    THEN [valid |-> FALSE, errors |-> <<<<"GeoJSON is null or undefined">>>>]
    ELSE IF Falsy(Get(geojson, "type"))
    THEN [valid |-> FALSE, errors |-> <<<<"Missing required \"type\" field">>>>]
    ELSE ValidationResult(ErrorsAfterTry(SwitchErrors(geojson), geojson))

(***************************************************************************)
(* Calls of validateGeometry                                                *)
(***************************************************************************)
\* a position [x, y] and a position [x, y, z]
Position2(x, y) == JArr(<<JNum(Num(x * Scale)), JNum(Num(y * Scale))>>)
Position3(x, y, z) ==
    JArr(<<JNum(Num(x * Scale)), JNum(Num(y * Scale)), JNum(Num(z * Scale))>>)

RingPositions == {Position2(0, 0), Position2(1, 0), Position2(1, 1)}

\* every ring of 1..MaxPositions of the positions above, closed or not
GeneratedRings == {JArr(r) : r \in SeqsUpTo(RingPositions, MaxPositions)}

OpenRing == JArr(<<Position2(0, 0), Position2(1, 0), Position2(1, 1), Position2(0, 1)>>)
ClosedRing == JArr(<<Position2(0, 0), Position2(1, 0), Position2(1, 1), Position2(0, 0)>>)
ShortOpenRing == JArr(<<Position2(0, 0), Position2(1, 0), Position2(1, 1)>>)

\* rings that differ only in elevation, leave the coordinate range, hold a
\* one-element or null position, or are no array
SpecialRings ==
    { JArr(<<Position3(0, 0, 1), Position3(1, 0, 1), Position3(1, 1, 1), Position3(0, 0, 2)>>),
      JArr(<<Position2(0, 91), Position2(1, 0), Position2(1, 1), Position2(0, 91)>>),
      JArr(<<Position2(181, 0), Position2(1, 0), Position2(1, 1), Position2(0, 0)>>),
      JArr(<<Position2(0, 0), JArr(<<JNum(Num(Scale))>>), Position2(1, 1), Position2(0, 0)>>),
      JArr(<<Position2(0, 0), JNull, Position2(1, 1), Position2(0, 0)>>),
      JArr(<<JNull, Position2(1, 0), Position2(1, 1), Position2(0, 0)>>),
      JArr(<<JArr(<<JNum(NaN), JNum(Num(0))>>), Position2(1, 0), Position2(1, 1),
             JArr(<<JNum(NaN), JNum(Num(0))>>)>>),
      JNull }

Geometry(type, coordinates) ==
    JObj(<<<<"type", JStr(type)>>, <<"coordinates", coordinates>>>>)

\* polygons of one generated or special ring, alone or before or after a
\* second ring
ValidationPolygons ==
    {Geometry("Polygon", JArr(<<r>>)) : r \in GeneratedRings \cup SpecialRings}
    \cup {Geometry("Polygon", JArr(<<r, s>>)) :
            r \in GeneratedRings \cup SpecialRings, s \in {OpenRing, ClosedRing, ShortOpenRing}}
    \cup {Geometry("Polygon", JArr(<<s, r>>)) :
            r \in SpecialRings, s \in {OpenRing, ClosedRing}}

FeatureOf(geometry) == JObj(<<<<"type", JStr("Feature")>>, <<"geometry", geometry>>>>)

OtherValidationInputs ==
    { JNull, JUndefined, JObj(<<>>), JObj(<<<<"coordinates", Position2(0, 0)>>>>),
      Geometry("Point", Position2(1, 1)), Geometry("Point", Position2(0, 91)),
      Geometry("Point", Position2(181, 0)), Geometry("Point", JArr(<<JNum(Num(0))>>)),
      Geometry("Point", JArr(<<JNull, JNum(Num(0))>>)),
      Geometry("Point", JArr(<<JNum(NaN), JNum(Num(0))>>)),
      JObj(<<<<"type", JStr("Point")>>>>),
      Geometry("LineString", JArr(<<Position2(0, 0), Position2(1, 1)>>)),
      Geometry("LineString", JArr(<<Position2(0, 0)>>)),
      Geometry("LineString", JArr(<<Position2(0, 0), JNull, Position2(0, 91)>>)),
      Geometry("Polygon", JArr(<<>>)), JObj(<<<<"type", JStr("Polygon")>>>>),
      Geometry("Circle", Position2(0, 0)),
      JObj(<<<<"type", JStr("Feature")>>>>),
      FeatureOf(Geometry("Polygon", JArr(<<OpenRing>>))),
      FeatureOf(Geometry("Polygon", JArr(<<ClosedRing>>))),
      FeatureOf(JNull),
      JObj(<<<<"type", JStr("FeatureCollection")>>>>),
      JObj(<<<<"type", JStr("FeatureCollection")>>,
             <<"features", JArr(<<FeatureOf(Geometry("Polygon", JArr(<<ClosedRing>>))),
                                  FeatureOf(Geometry("Polygon", JArr(<<OpenRing>>))),
                                  JObj(<<<<"type", JStr("Feature")>>>>)>>)>>>>),
      JObj(<<<<"type", JStr("FeatureCollection")>>,
             <<"features", JArr(<<JNull, FeatureOf(Geometry("Point", Position2(0, 91)))>>)>>>>) }

ValidationInputs == ValidationPolygons \cup OtherValidationInputs

InitValidate ==
    /\ pc = "geometry" /\ arg \in ValidationInputs
    /\ res = NoResult /\ res2 = NoResult
    /\ UIIdle

CallValidateGeometry ==
    /\ pc = "geometry"
    /\ res' = Return(validateGeometry(arg))
    /\ pc' = "validateGeometry"
    /\ UNCHANGED <<arg, res2>> /\ UNCHANGED uiVars

NextValidate == CallValidateGeometry

SpecValidate == InitValidate /\ [][NextValidate]_vars

(***************************************************************************)
(* jsonUtils.ts: flattenJSON and unflattenJSON.  The keys of these objects  *)
(* are texts, since the code joins, splits and matches them.                *)
(***************************************************************************)
HasKey(members, key) == \E k \in 1..Len(members) : members[k][1] = key

KeyIndex(members, key) == CHOOSE k \in 1..Len(members) : members[k][1] = key

\* object[key] = value: an existing key keeps its place
Assign(members, key, value) ==
    IF HasKey(members, key)
    THEN [members EXCEPT ![KeyIndex(members, key)] = <<key, value>>]
    ELSE Append(members, <<key, value>>)

\* Object.assign(target, source)
RECURSIVE AssignAll(_, _)
AssignAll(target, source) ==
    IF source = <<>> THEN target
    ELSE AssignAll(Assign(target, Head(source)[1], Head(source)[2]), Tail(source))

\* prefix ? `${prefix}${separator}${key}` : key
NewKey(prefix, separator, key) ==
    IF prefix # <<>> THEN prefix \o <<separator>> \o key ELSE key

\* `${newKey}[${index}]`
IndexedKey(newKey, index) == newKey \o <<"[">> \o NatToString(index) \o <<"]">>

\* typeof item === 'object' && item !== null && !Array.isArray(item)
IsPlainObject(item) == item.t = "object"

RECURSIVE flattenMembers(_, _, _, _)
\* the flattened object of flattenJSON(obj, prefix, separator), as its members
flattenJSON(obj, prefix, separator) == flattenMembers(obj.members, prefix, separator, <<>>)

\* value.forEach((item, index) => ...) from item number index on
RECURSIVE FlattenItems(_, _, _, _, _)
FlattenItems(items, index, newKey, separator, flattened) ==
    IF index >= Len(items) THEN flattened
    ELSE FlattenItems(items, index + 1, newKey, separator,
            IF IsPlainObject(items[index + 1])
            THEN AssignAll(flattened,
                           flattenJSON(items[index + 1], IndexedKey(newKey, index), separator))
            ELSE Assign(flattened, IndexedKey(newKey, index), items[index + 1]))

\* the body of the for-in loop for one key
FlattenValue(flattened, newKey, value, separator) ==
    IF value.t \in {"null", "undefined"} THEN Assign(flattened, newKey, value)
    ELSE IF IsArray(value) THEN FlattenItems(value.items, 0, newKey, separator, flattened)
    ELSE IF value.t = "object" THEN AssignAll(flattened, flattenJSON(value, newKey, separator))
    ELSE Assign(flattened, newKey, value)

flattenMembers(members, prefix, separator, flattened) ==
    IF members = <<>> THEN flattened
    ELSE flattenMembers(Tail(members), prefix, separator,
            FlattenValue(flattened, NewKey(prefix, separator, Head(members)[1]),
                         Head(members)[2], separator))

\* the start of the digits of a key that ends in "[digits]", counted back from
\* position j
RECURSIVE DigitsStart(_, _)
DigitsStart(k, j) == IF j > 1 /\ IsDigit(k[j - 1]) THEN DigitsStart(k, j - 1) ELSE j

\* k.match(/^(.+)\[(\d+)\]$/) succeeds
ArrayMatches(k) ==
    /\ Len(k) >= 4 /\ k[Len(k)] = "]"
    /\ DigitsStart(k, Len(k)) < Len(k)
    /\ DigitsStart(k, Len(k)) >= 3
    /\ k[DigitsStart(k, Len(k)) - 1] = "["

\* arrayMatch[1]
ArrayKeyOf(k) == SubSeq(k, 1, DigitsStart(k, Len(k)) - 2)

RECURSIVE DigitsToNat(_)
DigitsToNat(ds) ==
    IF ds = <<>> THEN 0
    ELSE DigitsToNat(SubSeq(ds, 1, Len(ds) - 1)) * 10 + DigitVal(ds[Len(ds)])

\* parseInt(arrayMatch[2])
ArrayIndexOf(k) == DigitsToNat(SubSeq(k, DigitsStart(k, Len(k)), Len(k) - 1))

\* current[key] of an object
Member(current, key) ==
    IF HasKey(current.members, key) THEN current.members[KeyIndex(current.members, key)][2]
    ELSE JUndefined

\* array[index] = value: the array grows, the skipped places stay empty
SetIndex(items, index, value) ==
    [j \in 1..(IF index + 1 > Len(items) THEN index + 1 ELSE Len(items)) |->
        IF j = index + 1 THEN value
        ELSE IF j <= Len(items) THEN items[j] ELSE JUndefined]

\* what is there, or the fresh value that `if (!x) x = fresh` puts there
OrFresh(value, fresh) == IF Falsy(value) THEN fresh ELSE value

\* the object after current[key] = an outcome's value, or the outcome's error
WithMember(current, key, outcome) ==
    IF outcome.threw THEN outcome
    ELSE Return(JObj(Assign(current.members, key, outcome.value)))

\* the array after array[index] = an outcome's value, or the outcome's error
WithItem(array, index, outcome) ==
    IF outcome.threw THEN outcome
    ELSE Return(JArr(SetIndex(array.items, index, outcome.value)))

\* assigning a property of a number, string or boolean throws in a module
PrimitiveThrow == Throw(<<TypeErrorText>>)

IsPrimitive(v) == v.t \in {"number", "string", "boolean"}

\* the last key: current[arrayKey][arrayIndex] = value or current[lastKey] =
\* value.  current is an object or a primitive (no generated input leads a
\* name into an array, or an index into an object).
PlaceLast(current, lastKey, value) ==
    IF IsPrimitive(current) THEN PrimitiveThrow
    ELSE IF ArrayMatches(lastKey)
    THEN WithMember(current, ArrayKeyOf(lastKey),
                    WithItem(OrFresh(Member(current, ArrayKeyOf(lastKey)), JArr(<<>>)),
                             ArrayIndexOf(lastKey), Return(value)))
    ELSE WithMember(current, lastKey, Return(value))

\* the inner for loop from keys[i] on, then the assignment of the last key:
\* current after the whole path was walked and the value stored
RECURSIVE Place(_, _, _, _)
Place(current, keys, i, value) ==
    IF i >= Len(keys) THEN PlaceLast(current, keys[Len(keys)], value)
    ELSE IF IsPrimitive(current) THEN PrimitiveThrow
    ELSE IF ArrayMatches(keys[i])
    THEN WithMember(current, ArrayKeyOf(keys[i]),
            WithItem(OrFresh(Member(current, ArrayKeyOf(keys[i])), JArr(<<>>)),
                     ArrayIndexOf(keys[i]),
                     Place(OrFresh(At(OrFresh(Member(current, ArrayKeyOf(keys[i])), JArr(<<>>)),
                                      ArrayIndexOf(keys[i])),
                                   JObj(<<>>)),
                           keys, i + 1, value)))
    ELSE WithMember(current, keys[i],
                    Place(OrFresh(Member(current, keys[i]), JObj(<<>>)), keys, i + 1, value))

\* the for-in loop over the flattened members, result so far in an outcome
RECURSIVE UnflattenLoop(_, _, _)
UnflattenLoop(flat, separator, result) ==
    IF flat = <<>> \/ result.threw THEN result
    ELSE UnflattenLoop(Tail(flat), separator,
                       Place(result.value, Split(Head(flat)[1], separator), 1, Head(flat)[2]))

unflattenJSON(flat, separator) == UnflattenLoop(flat, separator, Return(JObj(<<>>)))

(***************************************************************************)
(* Calls of flattenJSON and unflattenJSON                                   *)
(***************************************************************************)
DefaultSeparator == "."

KeyA == <<"a">>
KeyB == <<"b">>
KeyAB == <<"a", ".", "b">>

One == JNum(Num(Scale))
Zero == JNum(Num(0))

Scalars == {One, Zero, JNull, JStr("s")}

\* scalars, the empty object and the empty array
Leaves == Scalars \cup {JObj(<<>>), JArr(<<>>)}

\* leaves, arrays of leaves and objects of leaves
Nested ==
    Leaves
    \cup {JArr(items) : items \in SeqsUpTo(Leaves, MaxItems)}
    \cup {JObj(<<<<KeyA, v>>>>) : v \in Leaves}
    \cup {JObj(<<<<KeyB, v>>, <<KeyA, w>>>>) : v \in Scalars, w \in Leaves}

GeneratedObjects ==
    {JObj(<<>>)}
    \cup {JObj(<<<<KeyA, v>>>>) : v \in Nested}
    \cup {JObj(<<<<KeyA, v>>, <<KeyB, w>>>>) : v \in Nested, w \in Leaves}

\* deeper nesting, arrays in arrays, and keys that contain the separator
WrittenObjects ==
    { JObj(<<<<KeyA, JArr(<<JObj(<<<<KeyB, JArr(<<One, JObj(<<<<KeyA, One>>>>)>>)>>>>),
                            JArr(<<JArr(<<One>>), Zero>>)>>)>>>>),
      JObj(<<<<KeyA, JArr(<<JArr(<<One, JStr("s")>>), JArr(<<>>)>>)>>>>),
      JObj(<<<<KeyA, JObj(<<<<KeyB, JObj(<<<<KeyA, JArr(<<One, Zero>>)>>>>)>>>>)>>,
             <<KeyB, JNull>>>>),
      JObj(<<<<KeyAB, One>>>>),
      JObj(<<<<KeyA, JObj(<<<<KeyB, One>>>>)>>, <<KeyAB, Zero>>>>),
      JObj(<<<<KeyA, One>>, <<KeyAB, Zero>>>>),
      JObj(<<<<KeyA, Zero>>, <<KeyAB, One>>>>),
      JObj(<<<<KeyAB, One>>, <<KeyA, JStr("s")>>>>),
      JObj(<<<<KeyAB, JArr(<<One, JObj(<<<<KeyA, One>>>>)>>)>>>>) }

FlattenInputs == GeneratedObjects \cup WrittenObjects

InitFlatten ==
    /\ pc = "object" /\ arg \in FlattenInputs
    /\ res = NoResult /\ res2 = NoResult
    /\ UIIdle

CallFlattenJSON ==
    /\ pc = "object"
    /\ res' = Return(flattenJSON(arg, <<>>, DefaultSeparator))
    /\ pc' = "flattenJSON"
    /\ UNCHANGED <<arg, res2>> /\ UNCHANGED uiVars

\* the flattened object is given back to unflattenJSON
CallUnflattenJSON ==
    /\ pc = "flattenJSON"
    /\ res2' = unflattenJSON(res.value, DefaultSeparator)
    /\ pc' = "unflattenJSON"
    /\ UNCHANGED <<arg, res>> /\ UNCHANGED uiVars

NextFlatten == CallFlattenJSON \/ CallUnflattenJSON

SpecFlatten == InitFlatten /\ [][NextFlatten]_vars

(***************************************************************************)
(* validateGeometry applied to what wktToGeoJSONExtended returns            *)
(***************************************************************************)
\* coordinates of the parser as JSON values
RECURSIVE CoordinatesAsJson(_, _)
CoordinatesAsJson(c, depth) ==
    IF depth = 0 THEN JArr([i \in 1..Len(c) |-> JNum(c[i])])
    ELSE JArr([i \in 1..Len(c) |-> CoordinatesAsJson(c[i], depth - 1)])

\* a geometry object of the parser as a JSON value
RECURSIVE GeometryAsJson(_)
GeometryAsJson(g) ==
    IF g.type = "GeometryCollection"
    THEN JObj(<<<<"type", JStr(g.type)>>,
                <<"geometries", JArr([i \in 1..Len(g.geometries) |->
                                        GeometryAsJson(g.geometries[i])])>>>>)
    ELSE Geometry(g.type, CoordinatesAsJson(g.coordinates, CoordinateDepth(g.type)))

\* 'POINT(x y)' for two whole numbers
PointText(x, y) ==
    KW_POINT \o <<"(">> \o CounterToString(x) \o <<" ">> \o CounterToString(y) \o <<")">>

\* first and second numbers of the generated points: inside, on and outside
\* the limits of longitude and latitude
FirstNumbers == {0 - 181, 0 - 180, 0 - 91, 0 - 90, 0, 1, 90, 91, 100, 180, 181}
SecondNumbers == {0 - 91, 0 - 90, 0, 45, 90, 91, 100}

PointTexts == {PointText(x, y) : x \in FirstNumbers, y \in SecondNumbers}

\* texts with fewer points than their type requires
FewPointTexts ==
    {<<"L", "I", "N", "E", "S", "T", "R", "I", "N", "G", "(", "1", " ", "2", ")">>,
     <<"P", "O", "L", "Y", "G", "O", "N", "(", "(", "0", " ", "0", ",", " ", "1", " ", "1", ")", ")">>,
     <<"P", "O", "L", "Y", "G", "O", "N", "(", "(", "0", " ", "0", ",", " ", "1", " ", "0", ",", " ", "1", " ", "1", ")", ")">>}

\* polygons with a ring whose last point is not its first
OpenRingTexts ==
    {<<"P", "O", "L", "Y", "G", "O", "N", "(", "(", "0", " ", "0", ",", " ", "1", " ", "0", ",", " ", "1", " ", "1", ",", " ", "0", " ", "1", ")", ")">>,
     <<"P", "O", "L", "Y", "G", "O", "N", "(", "(", "0", " ", "0", ",", " ", "1", " ", "0", ",", " ", "1", " ", "1", ",", " ", "0", " ", "0", ")", ",", " ", "(", "0", " ", "0", ",", " ", "1", " ", "0", ",", " ", "1", " ", "1", ",", " ", "0", " ", "1", ")", ")">>}

\* line strings and polygons with a number outside the ranges
OutOfRangeTexts ==
    {<<"L", "I", "N", "E", "S", "T", "R", "I", "N", "G", "(", "0", " ", "1", "0", "0", ",", " ", "0", " ", "0", ")">>,
     <<"L", "I", "N", "E", "S", "T", "R", "I", "N", "G", "(", "2", "0", "0", " ", "0", ",", " ", "0", " ", "0", ")">>,
     <<"P", "O", "L", "Y", "G", "O", "N", "(", "(", "0", " ", "0", ",", " ", "1", "0", "0", " ", "0", ",", " ", "1", "0", "0", " ", "1", ",", " ", "0", " ", "0", ")", ")">>,
     <<"P", "O", "L", "Y", "G", "O", "N", "(", "(", "0", " ", "0", ",", " ", "0", " ", "1", "0", "0", ",", " ", "1", " ", "1", "0", "0", ",", " ", "0", " ", "0", ")", ")">>}

\* texts without a defect
SoundTexts ==
    {<<"L", "I", "N", "E", "S", "T", "R", "I", "N", "G", "(", "1", " ", "2", ",", " ", "3", " ", "4", ")">>,
     <<"P", "O", "L", "Y", "G", "O", "N", "(", "(", "0", " ", "0", ",", " ", "1", " ", "0", ",", " ", "1", " ", "1", ",", " ", "0", " ", "0", ")", ")">>}

\* texts the parser rejects
RejectedTexts ==
    {<<"P", "O", "I", "N", "T", "(", "1", " ", "2">>,
     <<"C", "I", "R", "C", "L", "E", "(", "1", " ", "2", ")">>,
     <<"p", "o", "i", "n", "t", "(", "0", " ", "0", ")">>,
     <<"M", "U", "L", "T", "I", "P", "O", "I", "N", "T", "(", "(", "0", " ", "1", "0", "0", ")", ")", "x">>}

OtherCheckedTexts ==
    FewPointTexts \cup OpenRingTexts \cup OutOfRangeTexts \cup SoundTexts \cup RejectedTexts

CheckedTexts == PointTexts \cup OtherCheckedTexts

InitCheck ==
    /\ pc = "unchecked" /\ arg \in CheckedTexts
    /\ res = NoResult /\ res2 = NoResult
    /\ UIIdle

ParseChecked ==
    /\ pc = "unchecked"
    /\ res' = wktToGeoJSONExtended(arg)
    /\ pc' = "parsedChecked"
    /\ UNCHANGED <<arg, res2>> /\ UNCHANGED uiVars

\* the geometry the parser returned is given to validateGeometry
ValidateParsed ==
    /\ pc = "parsedChecked" /\ ~res.threw
    /\ res2' = Return(validateGeometry(GeometryAsJson(res.value)))
    /\ pc' = "validatedChecked"
    /\ UNCHANGED <<arg, res>> /\ UNCHANGED uiVars

NextCheck == ParseChecked \/ ValidateParsed

SpecCheck == InitCheck /\ [][NextCheck]_vars

(***************************************************************************)
(* BBOXSelector.tsx: the component's state is res = [bounds, bbox,          *)
(* coordinateSystem, manualInput, bboxArea]                                 *)
(***************************************************************************)
\* validateBBox(minX, minY, maxX, maxY) of validation.ts
validateBBox(minX, minY, maxX, maxY) ==
    IF minX.nan \/ minY.nan \/ maxX.nan \/ maxY.nan
    THEN [valid |-> FALSE, error |-> "All coordinates must be numbers"]
    ELSE IF minX.val >= maxX.val
    THEN [valid |-> FALSE, error |-> "MinX must be less than MaxX"]
    ELSE IF minY.val >= maxY.val
    THEN [valid |-> FALSE, error |-> "MinY must be less than MaxY"]
    ELSE IF minX.val < 0 - 180 * Scale \/ maxX.val > 180 * Scale
    THEN [valid |-> FALSE, error |-> "X coordinates must be between -180 and 180"]
    ELSE IF minY.val < 0 - 90 * Scale \/ maxY.val > 90 * Scale
    THEN [valid |-> FALSE, error |-> "Y coordinates must be between -90 and 90"]
    ELSE [valid |-> TRUE]

\* the digits of n, with zeros in front up to the width
RECURSIVE PaddedDigits(_, _)
PaddedDigits(n, width) ==
    IF width = 0 THEN <<>>
    ELSE PaddedDigits(n \div 10, width - 1) \o <<Digits[(n % 10) + 1]>>

\* n.toFixed(6)
toFixed6(n) ==
    LET mag == IF n.val < 0 THEN 0 - n.val ELSE n.val
    IN  (IF n.val < 0 THEN <<"-">> ELSE <<>>)
            \o NatToString(mag \div Scale) \o <<".">>
            \o PaddedDigits(mag % Scale, FracDigits)
            \o [i \in 1..(6 - FracDigits) |-> "0"]

\* metres of EPSG:3857 in one degree, near the origin
MetresPerDegree == 111319

\* proj4('EPSG:3857', 'EPSG:4326', ...) for one coordinate near the origin,
\* to the nearest unit
MetresToDegrees(n) == Num((2 * n.val + MetresPerDegree) \div (2 * MetresPerDegree))

\* proj4('EPSG:4326', 'EPSG:3857', ...) for one coordinate near the origin
DegreesToMetres(n) == Num(n.val * MetresPerDegree)

\* the boxes whose metres are numbers of the model
Projectable(bbox) ==
    \A f \in {"minX", "minY", "maxX", "maxY"} :
        /\ bbox[f].val <= (2 ^ 30) \div MetresPerDegree
        /\ 0 - bbox[f].val <= (2 ^ 30) \div MetresPerDegree

LesserOf(a, b) == IF a.val <= b.val THEN a ELSE b
GreaterOf(a, b) == IF a.val >= b.val THEN a ELSE b

\* new LatLngBounds([minY, minX], [maxY, maxX])
LatLngBounds(bbox) ==
    [south |-> bbox.minY, west |-> bbox.minX, north |-> bbox.maxY, east |-> bbox.maxX]

\* calculateArea(bboxData): turf.area of the box's polygon / 1000000, a
\* value that the box determines
calculateArea(bboxData) == [km2Of |-> bboxData]

\* the four parseFloat calls of handleManualInputApply
ParsedInput(manualInput) ==
    [minX |-> parseFloat(manualInput.minX), minY |-> parseFloat(manualInput.minY),
     maxX |-> parseFloat(manualInput.maxX), maxY |-> parseFloat(manualInput.maxY)]

\* the box of the Web Mercator corners sw and ne in WGS84
ConvertedToWGS84(b) ==
    [minX |-> LesserOf(MetresToDegrees(b.minX), MetresToDegrees(b.maxX)),
     minY |-> LesserOf(MetresToDegrees(b.minY), MetresToDegrees(b.maxY)),
     maxX |-> GreaterOf(MetresToDegrees(b.minX), MetresToDegrees(b.maxX)),
     maxY |-> GreaterOf(MetresToDegrees(b.minY), MetresToDegrees(b.maxY))]

\* the box of the WGS84 corners sw and ne in Web Mercator
ConvertedToWebMercator(b) ==
    [minX |-> LesserOf(DegreesToMetres(b.minX), DegreesToMetres(b.maxX)),
     minY |-> LesserOf(DegreesToMetres(b.minY), DegreesToMetres(b.maxY)),
     maxX |-> GreaterOf(DegreesToMetres(b.minX), DegreesToMetres(b.maxX)),
     maxY |-> GreaterOf(DegreesToMetres(b.minY), DegreesToMetres(b.maxY))]

FinalBbox(state) ==
    IF state.coordinateSystem = "WebMercator"
    THEN ConvertedToWGS84(ParsedInput(state.manualInput))
    ELSE ParsedInput(state.manualInput)

\* the state after setBbox, setBounds and calculateArea
Applied(state, finalBbox) ==
    [state EXCEPT !.bbox = finalBbox, !.bounds = LatLngBounds(finalBbox),
                  !.bboxArea = calculateArea(finalBbox)]

\* the handler with the conversion done before the validation
handleManualInputApply_ConvertFirst(state) ==
    IF \E f \in {"minX", "minY", "maxX", "maxY"} : ParsedInput(state.manualInput)[f].nan
    THEN state
    ELSE IF ~validateBBox(FinalBbox(state).minX, FinalBbox(state).minY,
                          FinalBbox(state).maxX, FinalBbox(state).maxY).valid
    THEN state
    ELSE Applied(state, FinalBbox(state))

\* handleManualInputApply: the state after it (the toasts are not kept)
handleManualInputApply(state) ==
    IF ~validateBBox(ParsedInput(state.manualInput).minX, ParsedInput(state.manualInput).minY,
                     ParsedInput(state.manualInput).maxX, ParsedInput(state.manualInput).maxY).valid
    THEN state
    ELSE Applied(state, FinalBbox(state))

FixedInput(b) ==
    [minX |-> toFixed6(b.minX), minY |-> toFixed6(b.minY),
     maxX |-> toFixed6(b.maxX), maxY |-> toFixed6(b.maxY)]

\* handleBoundsChange(newBounds): a rectangle drawn on the map
handleBoundsChange(state, newBounds) ==
    [state EXCEPT !.bounds = newBounds,
                  !.bbox = [minX |-> newBounds.west, minY |-> newBounds.south,
                            maxX |-> newBounds.east, maxY |-> newBounds.north],
                  !.manualInput = FixedInput([minX |-> newBounds.west, minY |-> newBounds.south,
                                              maxX |-> newBounds.east, maxY |-> newBounds.north]),
                  !.bboxArea = calculateArea([minX |-> newBounds.west, minY |-> newBounds.south,
                                              maxX |-> newBounds.east, maxY |-> newBounds.north])]

\* handleCoordinateSystemChange(system)
handleCoordinateSystemChange(state, system) ==
    IF state.bbox = JsonNull THEN [state EXCEPT !.coordinateSystem = system]
    ELSE IF system = "WebMercator"
    THEN [state EXCEPT !.manualInput = FixedInput(ConvertedToWebMercator(state.bbox)),
                       !.coordinateSystem = system]
    ELSE [state EXCEPT !.manualInput = FixedInput(state.bbox),
                       !.coordinateSystem = system]

\* handleClear: the area is kept, the effect on bbox does nothing for null
handleClear(state) == [state EXCEPT !.bounds = JsonNull, !.bbox = JsonNull]

\* what is typed into the four fields
MinXTexts == {<<>>, <<"-", "1", "8", "1">>, <<"0">>}
MinYTexts == {<<"-", "9", "0">>, <<"0">>}
MaxXTexts == {<<"0">>, <<"1", "8", "0">>}
MaxYTexts == {<<"0">>, <<"9", "1">>}
FieldTexts(field) ==
    CASE field = "minX" -> MinXTexts
      [] field = "minY" -> MinYTexts
      [] field = "maxX" -> MaxXTexts
      [] field = "maxY" -> MaxYTexts

\* the rectangles drawn on the map
DrawnBounds ==
    {[south |-> Num(0), west |-> Num(0), north |-> Num(Scale \div 2), east |-> Num(Scale \div 2)]}

CoordinateSystems == {"WGS84", "WebMercator"}

\* pc tells whether the last handler was handleManualInputApply
InitSelector ==
    /\ pc = "BBOXSelector"
    /\ arg = NoResult
    /\ res = [bounds |-> JsonNull, bbox |-> JsonNull, coordinateSystem |-> "WGS84",
              manualInput |-> [minX |-> <<>>, minY |-> <<>>, maxX |-> <<>>, maxY |-> <<>>],
              bboxArea |-> JsonNull]
    /\ res2 = NoResult
    /\ UIIdle

ManualInputChange(field, value) ==
    /\ pc \in {"BBOXSelector", "handleManualInputApply"}
    /\ res' = [res EXCEPT !.manualInput[field] = value]
    /\ pc' = "BBOXSelector"
    /\ UNCHANGED <<arg, res2>> /\ UNCHANGED uiVars

ManualInputApply ==
    /\ pc \in {"BBOXSelector", "handleManualInputApply"}
    /\ res' = handleManualInputApply(res)
    /\ pc' = "handleManualInputApply"
    /\ UNCHANGED <<arg, res2>> /\ UNCHANGED uiVars

BoundsChange(newBounds) ==
    /\ pc \in {"BBOXSelector", "handleManualInputApply"}
    /\ res' = handleBoundsChange(res, newBounds)
    /\ pc' = "BBOXSelector"
    /\ UNCHANGED <<arg, res2>> /\ UNCHANGED uiVars

CoordinateSystemChange(system) ==
    /\ pc \in {"BBOXSelector", "handleManualInputApply"}
    /\ (res.bbox # JsonNull /\ system = "WebMercator") => Projectable(res.bbox)
    /\ res' = handleCoordinateSystemChange(res, system)
    /\ pc' = "BBOXSelector"
    /\ UNCHANGED <<arg, res2>> /\ UNCHANGED uiVars

Clear ==
    /\ pc \in {"BBOXSelector", "handleManualInputApply"}
    /\ res' = handleClear(res)
    /\ pc' = "BBOXSelector"
    /\ UNCHANGED <<arg, res2>> /\ UNCHANGED uiVars

NextSelector ==
    \/ \E field \in {"minX", "minY", "maxX", "maxY"} :
          \E value \in FieldTexts(field) : ManualInputChange(field, value)
    \/ ManualInputApply
    \/ \E newBounds \in DrawnBounds : BoundsChange(newBounds)
    \/ \E system \in CoordinateSystems : CoordinateSystemChange(system)
    \/ Clear

SpecSelector == InitSelector /\ [][NextSelector]_vars

(***************************************************************************)
(* DistanceArea: the component's state is res = [measurementType, points,   *)
(* distance, area]; res2.effect tells that a render with changed            *)
(* [points, measurementType] has not run its effect yet                     *)
(***************************************************************************)
\* handleMapClick(lat, lng)
handleMapClick(state, lat, lng) ==
    [state EXCEPT !.points = Append(state.points, <<lng, lat>>)]

\* handleUndo
handleUndo(state) ==
    IF Len(state.points) > 0
    THEN [state EXCEPT !.points = SubSeq(state.points, 1, Len(state.points) - 1),
                       !.distance = JsonNull, !.area = JsonNull]
    ELSE state

\* handleClear of DistanceArea
ClearMeasurements(state) ==
    [state EXCEPT !.points = <<>>, !.distance = JsonNull, !.area = JsonNull]

\* onChange of the Measurement Type select
ChangeMeasurementType(state, value) ==
    [state EXCEPT !.measurementType = value, !.distance = JsonNull, !.area = JsonNull]

\* turf.length(turf.lineString(points), { units: 'kilometers' }): a number
\* that the points determine
turf_length(points) == [kmOf |-> points]

\* turf.area(turf.polygon([closedPoints])) / 1000000
turf_area(closedPoints) == [km2Of |-> closedPoints]

\* the effect with the distance taken from one point on
Recalculate_FromOnePoint(state) ==
    IF state.measurementType = "distance" /\ Len(state.points) >= 1
    THEN [state EXCEPT !.distance = turf_length(state.points)]
    ELSE IF state.measurementType = "area" /\ Len(state.points) >= 3
    THEN [state EXCEPT !.area = turf_area(Append(state.points, state.points[1]))]
    ELSE [state EXCEPT !.distance = JsonNull, !.area = JsonNull]

\* the effect on [points, measurementType]
Recalculate(state) ==
    IF state.measurementType = "distance" /\ Len(state.points) >= 2
    THEN [state EXCEPT !.distance = turf_length(state.points)]
    ELSE IF state.measurementType = "area" /\ Len(state.points) >= 3
    THEN [state EXCEPT !.area = turf_area(Append(state.points, state.points[1]))]
    ELSE [state EXCEPT !.distance = JsonNull, !.area = JsonNull]

\* where the map is clicked
Clicks == {[lat |-> 1, lng |-> 2], [lat |-> 0, lng |-> 1]}

MeasurementTypes == {"distance", "area"}

MeasureSteps ==
    {"DistanceArea", "handleMapClick", "handleUndo", "handleClear",
     "setMeasurementType", "useEffect"}

\* useState of the four values; the effect runs after the first render
InitMeasure ==
    /\ pc = "DistanceArea"
    /\ arg = NoResult
    /\ res = [measurementType |-> "distance", points |-> <<>>,
              distance |-> JsonNull, area |-> JsonNull]
    /\ res2 = [effect |-> TRUE]
    /\ UIIdle

\* a handler runs when the effects of the last render have run
MapClick(lat, lng) ==
    /\ pc \in MeasureSteps /\ ~res2.effect /\ Len(res.points) < MaxPoints
    /\ res' = handleMapClick(res, lat, lng)
    /\ res2' = [effect |-> TRUE]
    /\ pc' = "handleMapClick"
    /\ UNCHANGED arg /\ UNCHANGED uiVars

Undo ==
    /\ pc \in MeasureSteps /\ ~res2.effect
    /\ res' = handleUndo(res)
    /\ res2' = [effect |-> Len(res.points) > 0]
    /\ pc' = "handleUndo"
    /\ UNCHANGED arg /\ UNCHANGED uiVars

\* setPoints([]) is a new array each time
ClearAll ==
    /\ pc \in MeasureSteps /\ ~res2.effect
    /\ res' = ClearMeasurements(res)
    /\ res2' = [effect |-> TRUE]
    /\ pc' = "handleClear"
    /\ UNCHANGED arg /\ UNCHANGED uiVars

\* the select reports a change of its value
SelectMeasurementType(value) ==
    /\ pc \in MeasureSteps /\ ~res2.effect /\ value # res.measurementType
    /\ res' = ChangeMeasurementType(res, value)
    /\ res2' = [effect |-> TRUE]
    /\ pc' = "setMeasurementType"
    /\ UNCHANGED arg /\ UNCHANGED uiVars

RunEffect ==
    /\ pc \in MeasureSteps /\ res2.effect
    /\ res' = Recalculate(res)
    /\ res2' = [effect |-> FALSE]
    /\ pc' = "useEffect"
    /\ UNCHANGED arg /\ UNCHANGED uiVars

NextMeasure ==
    \/ \E c \in Clicks : MapClick(c.lat, c.lng)
    \/ Undo
    \/ ClearAll
    \/ \E value \in MeasurementTypes : SelectMeasurementType(value)
    \/ RunEffect

SpecMeasure == InitMeasure /\ [][NextMeasure]_vars

(***************************************************************************)
(* hashUtils.ts: a 32-bit integer is [hi, lo], the two 16-bit halves of     *)
(* its bit pattern                                                          *)
(***************************************************************************)
Half == 2 ^ 16

\* hash << 5
ShiftLeft5(w) ==
    [hi |-> (w.hi * 32 + (w.lo * 32) \div Half) % Half, lo |-> (w.lo * 32) % Half]

\* ((hash << 5) + hash + byte) & 0xffffffff
HashStep_Added(hash, byte) ==
    [hi |-> (ShiftLeft5(hash).hi + hash.hi
               + (ShiftLeft5(hash).lo + hash.lo + byte) \div Half) % Half,
     lo |-> (ShiftLeft5(hash).lo + hash.lo + byte) % Half]

\* ((hash << 5) - hash + byte) & 0xffffffff
HashStep(hash, byte) ==
    [hi |-> (ShiftLeft5(hash).hi - hash.hi
               + (ShiftLeft5(hash).lo - hash.lo + byte) \div Half) % Half,
     lo |-> (ShiftLeft5(hash).lo - hash.lo + byte) % Half]

\* the loop over the bytes, from hash = 0
RECURSIVE HashLoop(_, _)
HashLoop(hash, bytes) ==
    IF bytes = <<>> THEN hash ELSE HashLoop(HashStep(hash, Head(bytes)), Tail(bytes))

\* Math.abs(hash): the halves of the magnitude of the signed value
MathAbs(w) ==
    IF w.hi < Half \div 2 THEN w
    ELSE [hi |-> (Half - 1) - w.hi + (IF w.lo = 0 THEN 1 ELSE 0), lo |-> (Half - w.lo) % Half]

HexDigits == <<"0", "1", "2", "3", "4", "5", "6", "7", "8", "9", "a", "b", "c", "d", "e", "f">>

RECURSIVE NatToHex(_)
NatToHex(n) == IF n < 16 THEN <<HexDigits[n + 1]>>
               ELSE NatToHex(n \div 16) \o <<HexDigits[(n % 16) + 1]>>

\* the digits of n from the given width on
RECURSIVE PaddedHex(_, _)
PaddedHex(n, width) ==
    IF width = 0 THEN <<>>
    ELSE PaddedHex(n \div 16, width - 1) \o <<HexDigits[(n % 16) + 1]>>

\* magnitude.toString(16)
ToHexString(m) == IF m.hi = 0 THEN NatToHex(m.lo) ELSE NatToHex(m.hi) \o PaddedHex(m.lo, 4)

\* s.padStart(32, '0')
PadStart32(str) ==
    IF Len(str) >= 32 THEN str ELSE [i \in 1..(32 - Len(str)) |-> "0"] \o str

\* the MD5 branch of hashFile and hashText on the bytes
SimpleHash(bytes) == PadStart32(ToHexString(MathAbs(HashLoop([hi |-> 0, lo |-> 0], bytes))))

\* new TextEncoder().encode(text): UTF-8 of code points below 0x800
RECURSIVE TextEncoder(_)
TextEncoder(text) ==
    IF text = <<>> THEN <<>>
    ELSE (IF Head(text) < 128 THEN <<Head(text)>>
          ELSE <<192 + (Head(text) \div 64), 128 + (Head(text) % 64)>>)
         \o TextEncoder(Tail(text))

\* the hexadecimal digest of crypto.subtle.digest, a value that the
\* algorithm and the bytes determine
SubtleDigest(algorithm, bytes) == [digest |-> algorithm, of |-> bytes]

\* hashFile(file, algorithm), the file given by its bytes
hashFile(file, algorithm) ==
    IF algorithm = "MD5" THEN SimpleHash(file) ELSE SubtleDigest(algorithm, file)

\* hashText(text, algorithm)
hashText(text, algorithm) ==
    IF algorithm = "MD5" THEN SimpleHash(TextEncoder(text))
    ELSE SubtleDigest(algorithm, TextEncoder(text))

\* code points of 'a' and of e with acute accent
CodePoints == {97, 233}

HashTexts == {<<>>} \cup SeqsUpTo(CodePoints, MaxBytes)

Algorithms == {"MD5", "SHA-256"}

\* a text, and a file that holds the text's bytes or one byte more
HashInputs ==
    {[text |-> t, file |-> TextEncoder(t) \o extra, algorithm |-> a] :
        t \in HashTexts, extra \in {<<>>, <<255>>}, a \in Algorithms}

InitHash ==
    /\ pc = "bytes" /\ arg \in HashInputs
    /\ res = NoResult /\ res2 = NoResult
    /\ UIIdle

CallHashText ==
    /\ pc = "bytes"
    /\ res' = Return(hashText(arg.text, arg.algorithm))
    /\ pc' = "hashText"
    /\ UNCHANGED <<arg, res2>> /\ UNCHANGED uiVars

CallHashFile ==
    /\ pc = "hashText"
    /\ res2' = Return(hashFile(arg.file, arg.algorithm))
    /\ pc' = "hashFile"
    /\ UNCHANGED <<arg, res>> /\ UNCHANGED uiVars

NextHash == CallHashText \/ CallHashFile

SpecHash == InitHash /\ [][NextHash]_vars

(***************************************************************************)
(* The whole model                                                          *)
(***************************************************************************)
Init == InitParse \/ InitWrite \/ InitUI \/ InitDiff \/ InitValidate \/ InitFlatten \/ InitCheck
    \/ InitViewer \/ InitSelector \/ InitMeasure \/ InitHash

Next == NextParse \/ NextWrite \/ NextUI \/ NextDiff \/ NextValidate \/ NextFlatten \/ NextCheck
    \/ NextViewer \/ NextSelector \/ NextMeasure \/ NextHash

Spec == Init /\ [][Next]_vars

(***************************************************************************)
(* Properties                                                               *)
(***************************************************************************)
\* WKT of the well-formed geometries that are not collections
SimpleWKT == {geoJSONToWKTExtended(g).value : g \in SimpleGeometries}

\* C1: writing a well-formed non-collection geometry as WKT and parsing the
\* text gives back the same geometry (same type, same coordinates, same order).
C1_RoundTripGeoJSON ==
    pc = "reparsed" /\ arg \in SimpleGeometries => res2 = Return(arg)

\* the keyword of a WKT text: its leading letters, in upper case
RECURSIVE SkipLetters(_, _)
SkipLetters(s, i) ==
    IF i <= Len(s) /\ ToUpper(s[i]) \in {UpperCase[k] : k \in 1..26}
    THEN SkipLetters(s, i + 1) ELSE i

KeywordOf(w) == [i \in 1..(SkipLetters(w, 1) - 1) |-> ToUpper(w[i])]

\* the numbers of a WKT text in order of appearance
RECURSIVE NumbersFrom(_, _)
NumbersFrom(w, i) ==
    IF i > Len(w) THEN <<>>
    ELSE IF IsNumChar(w[i])
    THEN <<parseFloat(SubSeq(w, i, SkipNum(w, i) - 1))>> \o NumbersFrom(w, SkipNum(w, i))
    ELSE NumbersFrom(w, i + 1)

\* two WKT texts denote the same geometry: same keyword, same nesting and
\* separators, same numbers in the same order
SameWKT(a, b) ==
    /\ KeywordOf(a) = KeywordOf(b)
    /\ SelectSeq(a, LAMBDA c : c \in {"(", ")", ","}) = SelectSeq(b, LAMBDA c : c \in {"(", ")", ","})
    /\ NumbersFrom(a, 1) = NumbersFrom(b, 1)

\* C2: parsing a well-formed non-collection WKT text in the serializer's
\* layout and writing the result gives a text that denotes the same geometry.
C2_RoundTripWKT ==
    pc = "rewritten" /\ arg \in SimpleWKT => ~res2.threw /\ SameWKT(res2.value, arg)

\* coordinates with the two elements of every pair exchanged
RECURSIVE SwapCoordinates(_, _)
SwapCoordinates(c, depth) ==
    IF depth = 0 THEN <<c[2], c[1]>>
    ELSE [i \in 1..Len(c) |-> SwapCoordinates(c[i], depth - 1)]

SwapGeometry(g) ==
    [type |-> g.type, coordinates |-> SwapCoordinates(g.coordinates, CoordinateDepth(g.type))]

\* C3: the parser emits the token "a b" of every position of the body as the
\* pair [b, a]: the text of a geometry parses to that geometry with every pair
\* exchanged, for a Point and for every token of the other six body layouts.
C3_EveryTokenSwapped ==
    pc = "reparsed" /\ arg \in SimpleGeometries => res2 = Return(SwapGeometry(arg))

\* the items separated by ", "
RECURSIVE CommaList(_)
CommaList(items) ==
    IF Len(items) = 0 THEN <<>>
    ELSE IF Len(items) = 1 THEN items[1]
    ELSE CommaList(SubSeq(items, 1, Len(items) - 1)) \o <<",", " ">> \o items[Len(items)]

Parenthesized(text) == <<"(">> \o text \o <<")">>

\* "<coordinates[0]> <coordinates[1]>"
PairText(c) == NumberToString(c[1]) \o <<" ">> \o NumberToString(c[2])

\* the body of a geometry's WKT: pairs at depth 0, one more pair of
\* parentheses around the entries of every level above 1
RECURSIVE BodyText(_, _)
BodyText(c, depth) ==
    IF depth = 0 THEN PairText(c)
    ELSE CommaList([i \in 1..Len(c) |->
                      IF depth = 1 THEN BodyText(c[i], 0)
                      ELSE Parenthesized(BodyText(c[i], depth - 1))])

KeywordFor(type) ==
    CASE type = "Point" -> KW_POINT
      [] type = "LineString" -> KW_LINESTRING
      [] type = "Polygon" -> KW_POLYGON
      [] type = "MultiPoint" -> KW_MULTIPOINT
      [] type = "MultiLineString" -> KW_MULTILINESTRING
      [] type = "MultiPolygon" -> KW_MULTIPOLYGON
      [] type = "GeometryCollection" -> KW_GEOMETRYCOLLECTION

RECURSIVE ExpectedWKT(_)
ExpectedWKT(g) ==
    KeywordFor(g.type) \o
      Parenthesized(IF g.type = "GeometryCollection"
                    THEN CommaList([i \in 1..Len(g.geometries) |-> ExpectedWKT(g.geometries[i])])
                    ELSE BodyText(g.coordinates, CoordinateDepth(g.type)))

\* C4: the serializer writes every pair as "<coordinates[0]> <coordinates[1]>",
\* unswapped, joined by ", ", each ring or line string in one pair of
\* parentheses, each polygon of a MultiPolygon in a further pair, after the
\* upper-case keyword; a GeometryCollection is the keyword around the WKT of
\* its members in order.
C4_SerializerLayout ==
    pc = "written" /\ arg \in SimpleGeometries \cup Collections
        => res = Return(ExpectedWKT(arg))

C4_Witness ==
    /\ pc = "written" /\ ~res.threw
    /\ arg \in MultiPolygons
    /\ Len(arg.coordinates) = 2 /\ Len(arg.coordinates[1]) = 2
    /\ Len(arg.coordinates[1][1]) = 3

\* the type's extraction pattern matches the trimmed text
ExtractionMatches(kw, trimmed) ==
    IF kw = KW_POINT THEN PointMatch(trimmed) # RegexNull
    ELSE BodyMatch(kw, trimmed) # RegexNull

Recognized(wkt) ==
    \E kw \in Keywords : PrefixMatch(kw, Trim(wkt)) /\ ExtractionMatches(kw, Trim(wkt))

\* C5: the parser throws an error whose message starts with "Invalid WKT
\* format" exactly when the trimmed text matches no keyword prefix or matches
\* one whose extraction pattern fails; otherwise it returns a geometry object.
C5_ThrowsExactlyWhenUnrecognized ==
    pc = "parsed" =>
        /\ res.threw <=> ~Recognized(arg)
        /\ res.threw => Head(res.message) = "Invalid WKT format"
        /\ ~res.threw => res.value.type \in GeometryTypes

C5_Witness ==
    /\ pc = "parsed" /\ res.threw
    /\ \E kw \in Keywords : PrefixMatch(kw, Trim(arg)) /\ ~ExtractionMatches(kw, Trim(arg))

\* the object, or a member of it at any depth, has a type outside the seven
RECURSIVE HasUnsupportedType(_)
HasUnsupportedType(g) ==
    \/ "type" \notin DOMAIN g
    \/ g.type \notin GeometryTypes
    \/ /\ g.type = "GeometryCollection" /\ "geometries" \in DOMAIN g
       /\ \E i \in 1..Len(g.geometries) : HasUnsupportedType(g.geometries[i])

\* C6: the serializer throws an error whose message starts with "Invalid
\* GeoJSON format" for every input whose type, or the type of a member at any
\* depth, is none of the seven; it returns no string for such input.
C6_UnsupportedTypeThrows ==
    pc = "written" /\ HasUnsupportedType(arg)
        => res.threw /\ Head(res.message) = "Invalid GeoJSON format"

C6_Witness ==
    /\ pc = "written" /\ res.threw
    /\ "type" \in DOMAIN arg /\ arg.type = "GeometryCollection"
    /\ "geometries" \in DOMAIN arg /\ Len(arg.geometries) = 1
    /\ arg.geometries[1].type = "GeometryCollection"
    /\ HasUnsupportedType(arg.geometries[1])

Count(s, c) == Len(SelectSeq(s, LAMBDA x : x = c))

\* C7: a text that starts with a supported keyword and whose parentheses do
\* not balance makes the parser throw.
C7_UnbalancedThrows ==
    pc = "parsed"
      /\ (\E kw \in Keywords : KeywordAt(kw, Trim(arg), 1))
      /\ Count(arg, "(") # Count(arg, ")")
        => res.threw

\* C8: a Convert that throws leaves the output field as it was and sets a
\* non-empty error, one that succeeds overwrites the output and empties the
\* error: within one mode the output field holds the result of the latest
\* successful conversion (it is empty if there was none) and the error is
\* non-empty exactly when the latest Convert failed.
C8_OutputKeptOnFailure ==
    /\ OutputField = IF lastOk = NoResult THEN EmptyOutput ELSE lastOk.value
    /\ wktError # <<>> <=> lastFailed

C8_Witness ==
    /\ tool = "CoordinateConverter" /\ mode = "wkt-to-geojson"
    /\ lastFailed /\ lastOk # NoResult
    /\ wktError # <<>> /\ geojsonInput = lastOk.value

\* C9: parsing GEOMETRYCOLLECTION(m1, ..., mn) with well-formed members of
\* supported types returns the collection of the parsed members, in order.
C9_CollectionMembers ==
    pc = "reparsed" /\ arg \in Collections =>
        res2 = Return([type |-> "GeometryCollection",
                       geometries |-> [i \in 1..Len(arg.geometries) |->
                           wktToGeoJSONExtended(geoJSONToWKTExtended(arg.geometries[i]).value).value]])

\* the texts that are part of s
Substrings(s) == {SubSeq(s, i, j) : i \in 1..Len(s), j \in 1..Len(s)}

\* C10: for every text that matches the GEOMETRYCOLLECTION( ... ) pattern the
\* parser returns a GeometryCollection without throwing, whatever the members
\* are, and every returned member is the result of a conversion of a part of
\* the text that succeeded.
C10_MalformedMemberSkipped ==
    pc = "parsed" /\ PrefixMatch(KW_GEOMETRYCOLLECTION, Trim(arg))
                  /\ BodyMatch(KW_GEOMETRYCOLLECTION, Trim(arg)) # RegexNull
        => /\ ~res.threw
           /\ res.value.type = "GeometryCollection"
           /\ \A k \in 1..Len(res.value.geometries) :
                 \E part \in Substrings(arg) :
                     wktToGeoJSONExtended(part) = Return(res.value.geometries[k])

C10_Witness ==
    /\ pc = "parsed" /\ ~res.threw
    /\ PrefixMatch(KW_GEOMETRYCOLLECTION, Trim(arg))
    /\ \E part \in Substrings(BodyMatch(KW_GEOMETRYCOLLECTION, Trim(arg))[1]) :
           Trim(part) # <<>> /\ wktToGeoJSONExtended(part).threw

\* the old 'a/b/c' and the new 'a/x/c' of the specification's example
ExampleOld == <<"a", "\n", "b", "\n", "c">>
ExampleNew == <<"a", "\n", "x", "\n", "c">>

\* the values of a line-number field in the records that carry it, in order
NumbersIn(records, field) ==
    [k \in 1..Len(SelectSeq(records, LAMBDA r : field \in DOMAIN r)) |->
        SelectSeq(records, LAMBDA r : field \in DOMAIN r)[k][field]]

\* the fields a record of a type carries
FieldsOf(type) ==
    IF type = "added" THEN {"type", "text", "newLineNumber"}
    ELSE IF type = "removed" THEN {"type", "text", "oldLineNumber"}
    ELSE {"type", "text", "oldLineNumber", "newLineNumber"}

\* C11: in a result of computeLineDiff an added record carries only
\* newLineNumber, a removed record only oldLineNumber, an unchanged record
\* both; the oldLineNumber values read in order are 1, 2, 3, ... and so are the
\* newLineNumber values; the example gives unchanged a (1,1), removed b
\* (old 2), added x (new 2), unchanged c (3,3).
C11_LineNumbers ==
    pc = "computeLineDiff" =>
        /\ \A i \in 1..Len(res.value) :
              /\ res.value[i].type \in {"added", "removed", "unchanged"}
              /\ DOMAIN res.value[i] = FieldsOf(res.value[i].type)
        /\ NumbersIn(res.value, "oldLineNumber")
             = [k \in 1..Len(NumbersIn(res.value, "oldLineNumber")) |-> k]
        /\ NumbersIn(res.value, "newLineNumber")
             = [k \in 1..Len(NumbersIn(res.value, "newLineNumber")) |-> k]
        /\ (arg.oldText = ExampleOld /\ arg.newText = ExampleNew
              => res.value
                   = <<[type |-> "unchanged", text |-> <<"a">>, oldLineNumber |-> 1, newLineNumber |-> 1],
                       [type |-> "removed", text |-> <<"b">>, oldLineNumber |-> 2],
                       [type |-> "added", text |-> <<"x">>, newLineNumber |-> 2],
                       [type |-> "unchanged", text |-> <<"c">>, oldLineNumber |-> 3, newLineNumber |-> 3]>>)

\* computeLineDiff has returned records of all three types, an added one
\* after a removed one
C11_Witness ==
    /\ pc = "computeLineDiff"
    /\ \E i, j, k \in 1..Len(res.value) :
          /\ i < j
          /\ res.value[i].type = "removed"
          /\ res.value[j].type = "added"
          /\ res.value[k].type = "unchanged"

\* the lines of the tuples of a line diff, each with its operation
RECURSIVE DiffLines(_)
DiffLines(diffs) ==
    IF diffs = <<>> THEN <<>>
    ELSE LinesWithOperation(Head(diffs)[1], LinesOf(Head(diffs)[2])) \o DiffLines(Tail(diffs))

\* the elements of a set of numbers in increasing order
RECURSIVE Sorted(_)
Sorted(S) == IF S = {} THEN <<>> ELSE <<Min(S)>> \o Sorted(S \ {Min(S)})

\* where the maximal runs of added and removed lines start
RunStarts(lines) ==
    Sorted({p \in 1..Len(lines) :
               lines[p][1] # DIFF_EQUAL /\ (p = 1 \/ lines[p - 1][1] = DIFF_EQUAL)})

\* the last line of the run that starts at p
RunEnd(lines, p) ==
    Min({q \in p..Len(lines) : q = Len(lines) \/ lines[q + 1][1] = DIFF_EQUAL})

\* number of lines with one of the operations among lines from..to
LinesWith(lines, operations, from, to) ==
    Cardinality({q \in from..to : lines[q][1] \in operations})

\* the lines of the unified diff after the two file headers
UnifiedLines(output) ==
    SubSeq(VisitedLines(Split(output, "\n")), 3, Len(VisitedLines(Split(output, "\n"))))

IsHunkHeader(line) == StartsWith(line, <<"@", "@", " ", "-">>)

HeaderPositions(lines) == Sorted({h \in 1..Len(lines) : IsHunkHeader(lines[h])})

\* the body of the hunk whose header is at h: the lines up to the next header
HunkBody(lines, h) ==
    SubSeq(lines, h + 1,
           Min({q \in h..Len(lines) : q = Len(lines) \/ IsHunkHeader(lines[q + 1])}))

\* the numbers s, c of a part "-s,c" or "+s,c" of a header
PartNumbers(part) ==
    <<DigitsValue(Split(Tail(part), ",")[1]), DigitsValue(Split(Tail(part), ",")[2])>>

\* <<s, c, s2, c2>> of a header "@@ -s,c +s2,c2 @@"
HeaderNumbers(header) ==
    PartNumbers(Split(header, "\\s+")[2]) \o PartNumbers(Split(header, "\\s+")[3])

\* the header the claim asks for the run of added and removed lines at p
ClaimedNumbers(lines, p) ==
    <<1 + LinesWith(lines, {DIFF_EQUAL, DIFF_DELETE}, 1, p - 1),
      LinesWith(lines, {DIFF_DELETE}, p, RunEnd(lines, p)),
      1 + LinesWith(lines, {DIFF_EQUAL, DIFF_INSERT}, 1, p - 1),
      LinesWith(lines, {DIFF_INSERT}, p, RunEnd(lines, p))>>

\* header k agrees with the body under it and with the k-th run of the diff
HeaderConsistent(out, lines, k) ==
    /\ HeaderNumbers(out[HeaderPositions(out)[k]])[2]
         = Len(SelectSeq(HunkBody(out, HeaderPositions(out)[k]), LAMBDA l : Head(l) = "-"))
    /\ HeaderNumbers(out[HeaderPositions(out)[k]])[4]
         = Len(SelectSeq(HunkBody(out, HeaderPositions(out)[k]), LAMBDA l : Head(l) = "+"))
    /\ HeaderNumbers(out[HeaderPositions(out)[k]]) = ClaimedNumbers(lines, RunStarts(lines)[k])

AllHeadersConsistent(out, lines) ==
    /\ Len(HeaderPositions(out)) = Len(RunStarts(lines))
    /\ \A k \in 1..Len(HeaderPositions(out)) : HeaderConsistent(out, lines, k)

\* C12: in every hunk header '@@ -s,c +s2,c2 @@' of formatUnifiedDiff, c is
\* the number of '-' lines and c2 the number of '+' lines of the hunk, s is 1
\* plus the number of old-text lines before the hunk and s2 is 1 plus the
\* number of new-text lines before it; the example has the single header
\* '@@ -2,1 +2,1 @@'.
C12_HunkHeaders ==
    pc = "formatUnifiedDiff" =>
        /\ AllHeadersConsistent(UnifiedLines(res.value), DiffLines(arg.lineDiffs))
        /\ (arg.oldText = ExampleOld /\ arg.newText = ExampleNew
              => SelectSeq(UnifiedLines(res.value), IsHunkHeader)
                   = <<<<"@", "@", " ", "-", "2", ",", "1", " ", "+", "2", ",", "1", " ", "@", "@">>>>)

\* formatUnifiedDiff has written two hunks, the second with removed and added
\* lines after unchanged ones
C12_Witness ==
    /\ pc = "formatUnifiedDiff"
    /\ Len(HeaderPositions(UnifiedLines(res.value))) = 2
    /\ HeaderNumbers(UnifiedLines(res.value)[HeaderPositions(UnifiedLines(res.value))[2]])[1] > 1
    /\ HeaderNumbers(UnifiedLines(res.value)[HeaderPositions(UnifiedLines(res.value))[2]])[2] > 0
    /\ HeaderNumbers(UnifiedLines(res.value)[HeaderPositions(UnifiedLines(res.value))[2]])[4] > 0

\* index of the first occurrence of pattern in s, 0 when there is none
IndexOf(s, pattern) ==
    IF \E i \in 1..Len(s) : StartsWith(SubSeq(s, i, Len(s)), pattern)
    THEN Min({i \in 1..Len(s) : StartsWith(SubSeq(s, i, Len(s)), pattern)})
    ELSE 0

SpanStart == <<"<", "s", "p", "a", "n", " ", "c", "l", "a", "s", "s", "=", "\"">>

\* the spans of a text made of spans only: the class and the content of each
RECURSIVE ReadSpans(_)
ReadSpans(html) ==
    IF ~StartsWith(html, SpanStart) THEN <<>>
    ELSE LET t == SubSeq(html, Len(SpanStart) + 1, Len(html))
             q == IndexOf(t, <<"\"", ">">>)
             e == IndexOf(t, SpanClose)
         IN  IF q = 0 \/ e = 0 \/ e < q + 2 THEN <<>>
             ELSE <<[class |-> SubSeq(t, 1, q - 1), content |-> SubSeq(t, q + 2, e - 1)]>>
                  \o ReadSpans(SubSeq(t, e + Len(SpanClose), Len(t)))

\* the text between the container's opening and closing lines
InsideContainer(html) ==
    SubSeq(html, Len(HTMLOpen) + 1, Len(html) - Len(HTMLClose))

\* the length the spans take when written out
RECURSIVE WrittenLength(_)
WrittenLength(spans) ==
    IF spans = <<>> THEN 0
    ELSE Len(SpanStart) + Len(Head(spans).class) + 2 + Len(Head(spans).content)
         + Len(SpanClose) + WrittenLength(Tail(spans))

\* an escaped text read back: <br>, &lt;, &gt; and &amp; stand for one
\* character each
RECURSIVE Decode(_)
Decode(s) ==
    IF s = <<>> THEN <<>>
    ELSE IF StartsWith(s, <<"<", "b", "r", ">">>)
    THEN <<"\n">> \o Decode(SubSeq(s, 5, Len(s)))
    ELSE IF StartsWith(s, <<"&", "l", "t", ";">>)
    THEN <<"<">> \o Decode(SubSeq(s, 5, Len(s)))
    ELSE IF StartsWith(s, <<"&", "g", "t", ";">>)
    THEN <<">">> \o Decode(SubSeq(s, 5, Len(s)))
    ELSE IF StartsWith(s, <<"&", "a", "m", "p", ";">>)
    THEN <<"&">> \o Decode(SubSeq(s, 6, Len(s)))
    ELSE <<Head(s)>> \o Decode(Tail(s))

\* the content holds '<' and '>' only as the two ends of a <br>
NoAngleFromText(content) ==
    \A i \in 1..Len(content) :
        /\ content[i] = "<" => StartsWith(SubSeq(content, i, Len(content)), <<"<", "b", "r", ">">>)
        /\ content[i] = ">" => i > 3 /\ SubSeq(content, i - 3, i) = <<"<", "b", "r", ">">>

\* the class the claim gives an operation
ClaimedClass(operation) ==
    CASE operation = DIFF_INSERT -> ClassAdded
      [] operation = DIFF_DELETE -> ClassRemoved
      [] operation = DIFF_EQUAL -> ClassUnchanged

\* the decoded contents of the spans of the given classes, put together
RECURSIVE DecodedText(_, _)
DecodedText(spans, classes) ==
    IF spans = <<>> THEN <<>>
    ELSE (IF Head(spans).class \in classes THEN Decode(Head(spans).content) ELSE <<>>)
         \o DecodedText(Tail(spans), classes)

\* span k is the k-th operation of the diff, escaped
SpansMatchDiffs(spans, diffs) ==
    /\ Len(spans) = Len(diffs)
    /\ \A k \in 1..Len(spans) :
          /\ spans[k].class = ClaimedClass(diffs[k][1])
          /\ Decode(spans[k].content) = diffs[k][2]
          /\ NoAngleFromText(spans[k].content)

\* C13: formatHTMLDiff wraps the text of each diff operation in one span of
\* class diff-added, diff-removed or diff-unchanged and escapes '&', '<', '>'
\* and the newline in it (the ampersand first); the output holds no '<' or '>'
\* of the input texts, the unchanged and added spans decode to the new text
\* and the unchanged and removed spans to the old text.
C13_HTMLSpans ==
    pc = "formatHTMLDiff" =>
        /\ StartsWith(res.value, HTMLOpen)
        /\ SubSeq(res.value, Len(res.value) - Len(HTMLClose) + 1, Len(res.value)) = HTMLClose
        /\ WrittenLength(ReadSpans(InsideContainer(res.value))) = Len(InsideContainer(res.value))
        /\ SpansMatchDiffs(ReadSpans(InsideContainer(res.value)), arg.semanticDiffs)
        /\ DecodedText(ReadSpans(InsideContainer(res.value)), {ClassUnchanged, ClassAdded})
             = arg.newText
        /\ DecodedText(ReadSpans(InsideContainer(res.value)), {ClassUnchanged, ClassRemoved})
             = arg.oldText

\* formatHTMLDiff has written a removed span whose text held '<' and an
\* added span whose text held '&'
C13_Witness ==
    /\ pc = "formatHTMLDiff"
    /\ \E i, j \in 1..Len(arg.semanticDiffs) :
          /\ arg.semanticDiffs[i][1] = DIFF_DELETE
          /\ \E n \in 1..Len(arg.semanticDiffs[i][2]) : arg.semanticDiffs[i][2][n] = "<"
          /\ arg.semanticDiffs[j][1] = DIFF_INSERT
          /\ \E n \in 1..Len(arg.semanticDiffs[j][2]) : arg.semanticDiffs[j][2][n] = "&"
    /\ Len(ReadSpans(InsideContainer(res.value))) = Len(arg.semanticDiffs)

\* the two file-header lines formatUnifiedDiff starts with
FileHeaders ==
    <<"-", "-", "-", " ">> \o DefaultOldFile \o <<"\n", "+", "+", "+", " ">>
      \o DefaultNewFile \o <<"\n">>

\* C14: with an empty old text and an empty new text computeLineDiff and
\* computeDiff (in each mode) return the empty sequence without throwing and
\* the output of formatUnifiedDiff contains no hunk.
C14_EmptyTexts ==
    pc \in {"computeLineDiff", "computeDiff", "formatUnifiedDiff"}
      /\ arg.oldText = <<>> /\ arg.newText = <<>>
      => /\ ~res.threw
         /\ pc \in {"computeLineDiff", "computeDiff"} => res.value = <<>>
         /\ pc = "formatUnifiedDiff"
              => /\ \A i \in 1..Len(res.value) :
                       ~StartsWith(SubSeq(res.value, i, Len(res.value)), <<"@", "@">>)
                 /\ res.value = FileHeaders

\* computeDiff has run in word mode on two empty texts
C14_Witness ==
    /\ pc = "computeDiff" /\ res2 = [mode |-> "word"]
    /\ arg.oldText = <<>> /\ arg.newText = <<>>


(***************************************************************************)
(* Polygon ring closure (validateGeometry)                                  *)
(***************************************************************************)
\* the value is a coordinate: an array of at least two numbers
IsCoordinate(v) ==
    /\ v.t = "array" /\ Len(v.items) >= 2
    /\ \A j \in 1..Len(v.items) : v.items[j].t = "number"

\* the value is a Polygon whose rings are non-empty arrays of coordinates
IsRingedPolygon(g) ==
    /\ g.t = "object"
    /\ Get(g, "type") = JStr("Polygon")
    /\ Get(g, "coordinates").t = "array"
    /\ Len(Get(g, "coordinates").items) > 0
    /\ \A k \in 1..Len(Get(g, "coordinates").items) :
          /\ Get(g, "coordinates").items[k].t = "array"
          /\ Len(Get(g, "coordinates").items[k].items) > 0
          /\ \A j \in 1..Len(Get(g, "coordinates").items[k].items) :
                IsCoordinate(Get(g, "coordinates").items[k].items[j])

\* ring number k (from 0) of a ringed polygon, as a sequence of coordinates
RingOf(g, k) == Get(g, "coordinates").items[k + 1].items

RingCount(g) == Len(Get(g, "coordinates").items)

\* two numbers of a coordinate are different numbers
NumbersDiffer(a, b) == a.num.nan \/ b.num.nan \/ a.num.val # b.num.val

\* the first and the last coordinate of the ring are not the same coordinate
FirstDiffersFromLast(ring) ==
    \/ Len(ring[1].items) # Len(ring[Len(ring)].items)
    \/ \E j \in 1..Len(ring[1].items) :
          NumbersDiffer(ring[1].items[j], ring[Len(ring)].items[j])

\* the first and the last coordinate differ in longitude or in latitude
EndsDifferInLonLat(ring) ==
    \/ NumbersDiffer(ring[1].items[1], ring[Len(ring)].items[1])
    \/ NumbersDiffer(ring[1].items[2], ring[Len(ring)].items[2])

HasError(result, message) == \E e \in 1..Len(result.errors) : result.errors[e] = message

NotClosedMessage(k) ==
    <<"Ring ", Digits[k + 1], " is not closed (first and last coordinates must match)">>

TooShortMessage(k) == <<"Ring ", Digits[k + 1], " must have at least 4 coordinates">>

\* C15 as stated: validateGeometry flags a Polygon with a ring whose first
\* coordinate is not its last as invalid, whatever the ring's length, and the
\* errors hold the "Ring i is not closed" message with that ring's index.
C15_OpenRingFlagged ==
    (pc = "validateGeometry" /\ IsRingedPolygon(arg))
    => \A k \in 0..(RingCount(arg) - 1) :
          FirstDiffersFromLast(RingOf(arg, k))
          => /\ ~res.value.valid
             /\ HasError(res.value, NotClosedMessage(k))

\* C15 amended: validateGeometry flags a Polygon with a ring of at least 4
\* coordinates whose first and last coordinate differ in longitude or latitude
\* as invalid, with the "Ring i is not closed" message of that ring's index; a
\* ring of fewer than 4 coordinates makes the Polygon invalid with "Ring i must
\* have at least 4 coordinates" and gets no "is not closed" message.
C15_LongOpenRingFlagged ==
    (pc = "validateGeometry" /\ IsRingedPolygon(arg))
    => \A k \in 0..(RingCount(arg) - 1) :
          /\ (Len(RingOf(arg, k)) >= 4 /\ EndsDifferInLonLat(RingOf(arg, k)))
             => (~res.value.valid /\ HasError(res.value, NotClosedMessage(k)))
          /\ Len(RingOf(arg, k)) < 4
             => /\ ~res.value.valid
                /\ HasError(res.value, TooShortMessage(k))
                /\ ~HasError(res.value, NotClosedMessage(k))

\* a polygon whose first ring is closed and whose second ring of 4 coordinates
\* is open was validated and got the message of ring 1 only
C15_Witness ==
    /\ pc = "validateGeometry" /\ IsRingedPolygon(arg)
    /\ RingCount(arg) = 2
    /\ Len(RingOf(arg, 0)) = 4 /\ ~FirstDiffersFromLast(RingOf(arg, 0))
    /\ Len(RingOf(arg, 1)) = 4 /\ EndsDifferInLonLat(RingOf(arg, 1))
    /\ ~res.value.valid
    /\ HasError(res.value, NotClosedMessage(1))
    /\ ~HasError(res.value, NotClosedMessage(0))


(***************************************************************************)
(* Letter case of the geometry keyword                                      *)
(***************************************************************************)
IsLetter(c) == \E i \in 1..26 : c = LowerCase[i] \/ c = UpperCase[i]

\* the position after the run of letters that starts at position i
RECURSIVE LettersEnd(_, _)
LettersEnd(s, i) == IF i <= Len(s) /\ IsLetter(s[i]) THEN LettersEnd(s, i + 1) ELSE i

\* the word the trimmed text starts with
LeadingWord(w) == SubSeq(Trim(w), 1, LettersEnd(Trim(w), 1) - 1)

UpperWord(word) == [i \in 1..Len(word) |-> ToUpper(word[i])]

\* the trimmed text with the word it starts with in upper case
WithUpperKeyword(w) ==
    UpperWord(LeadingWord(w)) \o SubSeq(Trim(w), Len(LeadingWord(w)) + 1, Len(Trim(w)))

\* the text starts with a supported keyword in some mix of letter cases
StartsWithKeyword(w) == UpperWord(LeadingWord(w)) \in Keywords

\* C16: for every mix of upper and lower case letters in a supported keyword,
\* wktToGeoJSONExtended and the WKTConverter tool's wktToGeoJSON return what
\* they return for the upper-case keyword with the same body.
C16_KeywordCaseIgnored ==
    /\ (pc = "parsed" /\ StartsWithKeyword(arg))
       => res = wktToGeoJSONExtended(WithUpperKeyword(arg))
    /\ (pc = "parsedSimple" /\ StartsWithKeyword(arg))
       => res = wktToGeoJSON(WithUpperKeyword(arg))


(***************************************************************************)
(* flattenJSON and unflattenJSON as a round trip                            *)
(***************************************************************************)
KeysOf(members) == {members[k][1] : k \in 1..Len(members)}

ValueOf(members, key) == members[CHOOSE k \in 1..Len(members) : members[k][1] = key][2]

\* deep equality of two JSON values: objects by their keys and values in any
\* order, arrays item by item
RECURSIVE JsonEqual(_, _)
JsonEqual(x, y) ==
    /\ x.t = y.t
    /\ CASE x.t = "object" ->
              /\ KeysOf(x.members) = KeysOf(y.members)
              /\ Len(x.members) = Len(y.members)
              /\ \A key \in KeysOf(x.members) :
                    JsonEqual(ValueOf(x.members, key), ValueOf(y.members, key))
         [] x.t = "array" ->
              /\ Len(x.items) = Len(y.items)
              /\ \A j \in 1..Len(x.items) : JsonEqual(x.items[j], y.items[j])
         [] OTHER -> x = y

\* C17: unflattenJSON(flattenJSON(o)) equals o for every JSON object o, also
\* when o holds empty objects, empty arrays, arrays nested in arrays or keys
\* that contain the separator '.'.
C17_RoundTrip ==
    pc = "unflattenJSON" => (~res2.threw /\ JsonEqual(res2.value, arg))


(***************************************************************************)
(* Rings and members kept by wktToGeoJSONExtended                           *)
(***************************************************************************)
\* how many entries coordinates have at every level above the pairs
RECURSIVE Shape(_, _)
Shape(c, depth) ==
    IF depth = 0 THEN <<>>
    ELSE [i \in 1..Len(c) |-> Shape(c[i], depth - 1)]

\* C18: wktToGeoJSONExtended keeps every ring and every member: the text of a
\* geometry with k rings, line strings, polygons or points parses to k of
\* them, each with as many coordinate pairs as written.
C18_EveryMemberKept ==
    (pc = "reparsed" /\ arg \in SimpleGeometries /\ arg.type # "Point")
    => /\ ~res2.threw
       /\ res2.value.type = arg.type
       /\ Shape(res2.value.coordinates, CoordinateDepth(arg.type))
            = Shape(arg.coordinates, CoordinateDepth(arg.type))


(***************************************************************************)
(* Hunks of formatUnifiedDiff                                               *)
(***************************************************************************)
SignOf(operation) == IF operation = DIFF_INSERT THEN <<"+">> ELSE <<"-">>

\* a line of the diff without the line break that ends it
WithoutBreak(line) ==
    IF line # <<>> /\ line[Len(line)] = "\n" THEN SubSeq(line, 1, Len(line) - 1) ELSE line

\* the added and removed lines p..q of the diff as '+' and '-' lines
RenderedRun(lines, p, q) ==
    [j \in 1..(q - p + 1) |->
        SignOf(lines[p + j - 1][1]) \o WithoutBreak(lines[p + j - 1][2])]

\* hunk k of the output is the k-th maximal run of added and removed lines
HunkIsRun(out, lines, k) ==
    HunkBody(out, HeaderPositions(out)[k])
      = RenderedRun(lines, RunStarts(lines)[k], RunEnd(lines, RunStarts(lines)[k]))

\* every line after the file headers is a hunk header, a '-' or a '+' line
OnlyHunkLines(out) ==
    \A l \in 1..Len(out) :
        IsHunkHeader(out[l]) \/ (out[l] # <<>> /\ out[l][1] \in {"-", "+"})

\* C19: formatUnifiedDiff writes exactly one hunk per maximal run of
\* consecutive added/removed lines, in input order; a hunk body holds only the
\* '-' and '+' lines of its run in diff order and no unchanged line is ever
\* written; for identical texts the output is exactly the two file headers.
C19_OneHunkPerRun ==
    pc = "formatUnifiedDiff" =>
        /\ Len(HeaderPositions(UnifiedLines(res.value))) = Len(RunStarts(DiffLines(arg.lineDiffs)))
        /\ \A k \in 1..Len(RunStarts(DiffLines(arg.lineDiffs))) :
              HunkIsRun(UnifiedLines(res.value), DiffLines(arg.lineDiffs), k)
        /\ OnlyHunkLines(UnifiedLines(res.value))
        /\ (UnifiedLines(res.value) # <<>> => IsHunkHeader(UnifiedLines(res.value)[1]))
        /\ (arg.oldText = arg.newText => res.value = FileHeaders)

\* formatUnifiedDiff has written two hunks for two runs that an unchanged
\* line separates, and the unchanged line is not in the output
C19_Witness ==
    /\ pc = "formatUnifiedDiff"
    /\ Len(RunStarts(DiffLines(arg.lineDiffs))) = 2
    /\ Len(HeaderPositions(UnifiedLines(res.value))) = 2
    /\ Len(UnifiedLines(res.value)) < Len(DiffLines(arg.lineDiffs)) + 2


(***************************************************************************)
(* The three renderers compared                                             *)
(***************************************************************************)
\* the texts of the records of one type, in order
TextsOfType(records, type) ==
    [k \in 1..Len(SelectSeq(records, LAMBDA r : r.type = type)) |->
        SelectSeq(records, LAMBDA r : r.type = type)[k].text]

\* the lines of the unified diff that start with the sign, without the sign
SignedLines(out, sign) ==
    [k \in 1..Len(SelectSeq(out, LAMBDA l : l # <<>> /\ l[1] = sign)) |->
        Tail(SelectSeq(out, LAMBDA l : l # <<>> /\ l[1] = sign)[k])]

\* the texts put together, line breaks left out
RECURSIVE Together(_)
Together(texts) ==
    IF texts = <<>> THEN <<>>
    ELSE SelectSeq(Head(texts), LAMBDA c : c # "\n") \o Together(Tail(texts))

\* the '-' lines are the removed records and the '+' lines the added records
UnifiedAgreesWithRecords(output, records) ==
    /\ SignedLines(UnifiedLines(output), "-") = TextsOfType(records, "removed")
    /\ SignedLines(UnifiedLines(output), "+") = TextsOfType(records, "added")

\* the spans of a class carry the text of the records of the type
SpansAgreeWithRecords(spans, records) ==
    /\ Together(<<DecodedText(spans, {ClassRemoved})>>) = Together(TextsOfType(records, "removed"))
    /\ Together(<<DecodedText(spans, {ClassAdded})>>) = Together(TextsOfType(records, "added"))
    /\ Together(<<DecodedText(spans, {ClassUnchanged})>>)
         = Together(TextsOfType(records, "unchanged"))

\* C20 as stated: for the same texts computeLineDiff, formatUnifiedDiff and
\* formatHTMLDiff classify the same text as added, removed and unchanged: the
\* '-' lines are the removed records, the '+' lines the added records, and the
\* HTML spans carry the same texts with the same classes.
C20_SameClassification ==
    /\ pc = "formatUnifiedDiff"
       => UnifiedAgreesWithRecords(res.value, computeLineDiff(arg.lineDiffs))
    /\ pc = "formatHTMLDiff"
       => SpansAgreeWithRecords(ReadSpans(InsideContainer(res.value)),
                                computeLineDiff(arg.lineDiffs))

\* C20 amended: computeLineDiff and formatUnifiedDiff render the same line
\* diff (the '-' lines are the removed records, the '+' lines the added
\* records, in order); formatHTMLDiff renders a diff of the characters, whose
\* removed and unchanged spans make up the old text, as the removed and
\* unchanged records do, and whose added and unchanged spans make up the new
\* text, as the added and unchanged records do.
C20_LineRenderersAgree ==
    /\ pc = "formatUnifiedDiff"
       => UnifiedAgreesWithRecords(res.value, computeLineDiff(arg.lineDiffs))
    /\ pc = "formatHTMLDiff"
       => /\ Together(<<DecodedText(ReadSpans(InsideContainer(res.value)),
                                    {ClassRemoved, ClassUnchanged})>>)
               = Together(<<arg.oldText>>)
          /\ Together(<<DecodedText(ReadSpans(InsideContainer(res.value)),
                                    {ClassAdded, ClassUnchanged})>>)
               = Together(<<arg.newText>>)
    /\ pc = "computeLineDiff"
       => /\ Together([k \in 1..Len(SelectSeq(res.value, LAMBDA r : r.type # "added")) |->
                         SelectSeq(res.value, LAMBDA r : r.type # "added")[k].text])
               = Together(<<arg.oldText>>)
          /\ Together([k \in 1..Len(SelectSeq(res.value, LAMBDA r : r.type # "removed")) |->
                         SelectSeq(res.value, LAMBDA r : r.type # "removed")[k].text])
               = Together(<<arg.newText>>)

\* formatHTMLDiff has marked one character as removed and one as added in a
\* line that the line diff removes and adds as a whole
C20_Witness ==
    /\ pc = "formatHTMLDiff"
    /\ arg.oldText = <<"a", "b">> /\ arg.newText = <<"a", "c">>
    /\ DecodedText(ReadSpans(InsideContainer(res.value)), {ClassUnchanged}) = <<"a">>
    /\ DecodedText(ReadSpans(InsideContainer(res.value)), {ClassRemoved}) = <<"b">>
    /\ TextsOfType(computeLineDiff(arg.lineDiffs), "removed") = <<<<"a", "b">>>>


(***************************************************************************)
(* Coordinate arrays of the parser's results                                *)
(***************************************************************************)
\* coordinates are non-empty at every level and end in pairs of two elements
RECURSIVE FilledCoordinates(_, _)
FilledCoordinates(c, depth) ==
    IF depth = 0 THEN Len(c) = 2
    ELSE Len(c) >= 1 /\ \A i \in 1..Len(c) : FilledCoordinates(c[i], depth - 1)

\* C21: every geometry of the six coordinate types that wktToGeoJSONExtended
\* returns has coordinates that are non-empty at every nesting level and whose
\* innermost entries are pairs of exactly two elements.
C21_CoordinatesFilled ==
    (pc = "parsed" /\ ~res.threw /\ res.value.type # "GeometryCollection")
    => FilledCoordinates(res.value.coordinates, CoordinateDepth(res.value.type))

\* the parser has returned a LineString for a body that holds no pair of
\* numbers: its one entry is still a pair
C21_Witness ==
    /\ pc = "parsed" /\ ~res.threw
    /\ res.value.type = "LineString"
    /\ Len(res.value.coordinates) = 1
    /\ res.value.coordinates[1][1].nan

(***************************************************************************)
(* C22, C26: the validator on the parser's output                           *)
(***************************************************************************)
InLongitude(x) == 0 - 180 <= x /\ x <= 180
InLatitude(y) == 0 - 90 <= y /\ y <= 90

\* the text is 'POINT(x y)' with x a longitude and y a latitude in range
InRangePoint ==
    \E x \in FirstNumbers, y \in SecondNumbers :
        arg = PointText(x, y) /\ InLongitude(x) /\ InLatitude(y)

\* the text is 'POINT(x y)' with x or y outside its range
OutOfRangePoint ==
    \E x \in FirstNumbers, y \in SecondNumbers :
        arg = PointText(x, y) /\ ~(InLongitude(x) /\ InLatitude(y))

Defective ==
    OutOfRangePoint \/ arg \in FewPointTexts \cup OpenRingTexts \cup OutOfRangeTexts

\* C22: for a text of a known form whose numbers are outside the ranges,
\* whose ring is not closed or which has too few points,
\* wktToGeoJSONExtended returns a geometry, and validateGeometry reports the
\* defect on that geometry.
C22_DefectsLeftToValidator ==
    /\ (pc = "parsedChecked" /\ Defective) => ~res.threw
    /\ (pc = "validatedChecked" /\ Defective) => ~res2.value.valid

\* the half of C22 about the parser alone
C22_ParserReturns ==
    (pc \in {"parsedChecked", "validatedChecked"} /\ Defective) => ~res.threw

\* C26: for every 'POINT(lon lat)' with lon and lat in range, validateGeometry
\* accepts what wktToGeoJSONExtended returns.
C26_InRangePointAccepted ==
    (pc = "validatedChecked" /\ InRangePoint) => res2.value.valid

(***************************************************************************)
(* C24: computeLineDiff reconstructs both texts                             *)
(***************************************************************************)
\* the lines of a text: the pieces between its newlines, without a last
\* empty piece after a final newline
TextLines(text) == [k \in 1..Len(LinesOf(text)) |-> WithoutBreak(LinesOf(text)[k])]

\* the texts of the records of the given types, in order
TextsOfTypes(records, types) ==
    [k \in 1..Len(SelectSeq(records, LAMBDA r : r.type \in types)) |->
        SelectSeq(records, LAMBDA r : r.type \in types)[k].text]

\* how many records carry the field
Carrying(records, field) ==
    Cardinality({k \in 1..Len(records) : field \in DOMAIN records[k]})

\* C24: the removed and unchanged records of computeLineDiff are, in order,
\* the lines of the old text, the added and unchanged records the lines of
\* the new text, and as many records carry oldLineNumber (newLineNumber) as
\* the old (new) text has lines.
C24_BothTextsReconstructed ==
    pc = "computeLineDiff" =>
        /\ TextsOfTypes(res.value, {"removed", "unchanged"}) = TextLines(arg.oldText)
        /\ TextsOfTypes(res.value, {"added", "unchanged"}) = TextLines(arg.newText)
        /\ Carrying(res.value, "oldLineNumber") = Len(TextLines(arg.oldText))
        /\ Carrying(res.value, "newLineNumber") = Len(TextLines(arg.newText))

\* a replaced middle line, a final newline on one side only
C24_Witness ==
    /\ pc = "computeLineDiff"
    /\ arg.oldText = <<"a", "\n", "b", "\n", "c", "\n">>
    /\ arg.newText = <<"a", "\n", "c", "\n">>
    /\ Len(res.value) = 3
    /\ res.value[2].type = "removed"

(***************************************************************************)
(* C23: the Calculate button and the mode selector of DiffViewer            *)
(***************************************************************************)
\* what computeLineDiff may return for the two texts
LineDiffsOf(oldText, newText) ==
    {computeLineDiff(d) : d \in diffLineMode(oldText, newText)}

\* C23: Calculate with both texts empty reports an error and keeps the diff;
\* otherwise, whatever the mode, the diff becomes
\* computeLineDiff(oldText, newText); the mode selector empties the diff.
C23_CalculateAndModeChange ==
    [][/\ pc' = "calculateDiff" =>
            IF arg.oldText = <<>> /\ arg.newText = <<>>
            THEN res2'.toast = "error" /\ res'.diff = res.diff
            ELSE /\ res'.diff \in LineDiffsOf(arg.oldText, arg.newText)
                 /\ res2'.toast = "success"
                 /\ res'.diffMode = res.diffMode
       /\ pc' = "setDiffMode" => res'.diff = <<>>]_vars

\* Calculate in word mode with only the old text empty, over an earlier diff
C23_Witness ==
    /\ pc = "calculateDiff"
    /\ res.diffMode = "word"
    /\ arg.oldText = <<>> /\ arg.newText = <<"a", "\n", "b">>
    /\ Len(res.diff) = 2 /\ res.diff[1].type = "added"
    /\ res2.toast = "success"

(***************************************************************************)
(* C25: serialize, then parse                                               *)
(***************************************************************************)
\* the points, line strings and polygons of one ring
OneRinged ==
    Points \cup SmallPoints \cup LineStrings
        \cup {g \in Polygons : Len(g.coordinates) = 1}

\* wktToGeoJSONExtended(geoJSONToWKTExtended(g))
WrittenAndParsed(g) ==
    IF geoJSONToWKTExtended(g).threw THEN geoJSONToWKTExtended(g)
    ELSE wktToGeoJSONExtended(geoJSONToWKTExtended(g).value)

\* C25: for a Point, a LineString or a Polygon of one ring, the text
\* geoJSONToWKTExtended writes parses to the geometry with every pair
\* exchanged, and writing and parsing that result once more gives the
\* geometry itself.
C25_WriteParseSwaps ==
    (pc = "reparsed" /\ arg \in OneRinged) =>
        /\ res2 = Return(SwapGeometry(arg))
        /\ WrittenAndParsed(res2.value) = Return(arg)

\* the same for the coordinates that are written without an exponent
C25_PlainNumbersSwap ==
    (pc = "reparsed" /\ arg \in OneRinged \ SmallPoints) =>
        /\ res2 = Return(SwapGeometry(arg))
        /\ WrittenAndParsed(res2.value) = Return(arg)

(***************************************************************************)
(* C27: validateGeometry returns, and valid says that errors is empty       *)
(***************************************************************************)
HasType(v, type) == v.t = "object" /\ StrictEqual(Get(v, "type"), JStr(type))

\* the geometry of a feature, if it has one
GeometriesOf(feature) ==
    IF feature.t = "object" /\ ~Falsy(Get(feature, "geometry"))
    THEN {Get(feature, "geometry")}
    ELSE {}

\* the geometries a Feature or FeatureCollection contains
ContainedGeometries(v) ==
    IF HasType(v, "Feature") THEN GeometriesOf(v)
    ELSE IF HasType(v, "FeatureCollection") /\ IsArray(Get(v, "features"))
    THEN UNION {GeometriesOf(Get(v, "features").items[i]) :
                   i \in 1..Len(Get(v, "features").items)}
    ELSE {}

\* C27: validateGeometry returns for every input, null, objects without
\* type, Features without geometry and FeatureCollections with null entries
\* included; valid is true exactly when errors is empty; a valid Feature or
\* FeatureCollection contains valid geometries only.
C27_ValidIffNoErrors ==
    pc = "validateGeometry" =>
        /\ ~res.threw
        /\ res.value.valid \in BOOLEAN
        /\ res.value.valid <=> (Len(res.value.errors) = 0)
        /\ res.value.valid =>
               \A g \in ContainedGeometries(arg) : validateGeometry(g).valid

\* a FeatureCollection whose first entry is null
C27_Witness ==
    /\ pc = "validateGeometry"
    /\ HasType(arg, "FeatureCollection")
    /\ IsArray(Get(arg, "features"))
    /\ Get(arg, "features").items[1] = JNull
    /\ ~res.threw /\ ~res.value.valid
    /\ res.value.errors = <<<<"Validation error: ", TypeErrorText>>>>

(***************************************************************************)
(* C28: Apply on a manually entered bounding box                            *)
(***************************************************************************)
\* the four numbers as entered: all numbers, minX < maxX, minY < maxY,
\* X within [-180, 180], Y within [-90, 90]
RawBoxValid(raw) ==
    /\ ~raw.minX.nan /\ ~raw.minY.nan /\ ~raw.maxX.nan /\ ~raw.maxY.nan
    /\ raw.minX.val < raw.maxX.val /\ raw.minY.val < raw.maxY.val
    /\ 0 - 180 * Scale <= raw.minX.val /\ raw.maxX.val <= 180 * Scale
    /\ 0 - 90 * Scale <= raw.minY.val /\ raw.maxY.val <= 90 * Scale

\* C28: handleManualInputApply tests the numbers as entered, whatever the
\* coordinate system: when they fail validateBBox's conditions, bbox, bounds
\* and area stay as they were; only when they pass is a box stored, so in
\* WebMercator only metre values inside the degree ranges are accepted.
C28_RawNumbersValidated ==
    [][pc' = "handleManualInputApply" =>
          IF RawBoxValid(ParsedInput(res.manualInput))
          THEN /\ res'.bbox # JsonNull
               /\ res.coordinateSystem = "WGS84" => res'.bbox = ParsedInput(res.manualInput)
               /\ res'.bounds = LatLngBounds(res'.bbox)
          ELSE /\ res'.bbox = res.bbox
               /\ res'.bounds = res.bounds
               /\ res'.bboxArea = res.bboxArea]_vars

\* Apply in WebMercator on the metres of a drawn box, which lie beyond 180:
\* the drawn box stays
C28_Witness ==
    /\ pc = "handleManualInputApply"
    /\ res.coordinateSystem = "WebMercator"
    /\ ParsedInput(res.manualInput).maxX.val > 180 * Scale
    /\ ParsedInput(res.manualInput).minX.val = 0
    /\ ParsedInput(res.manualInput).minY.val = 0
    /\ res.bbox # JsonNull /\ res.bbox.maxX = Num(Scale \div 2)

(***************************************************************************)
(* C29: DistanceArea after clicks, Undo, Clear and changes of the type      *)
(***************************************************************************)
\* the effect of the last render has run
Recalculated == pc \in MeasureSteps /\ ~res2.effect

MeasuresMatchPoints ==
    Recalculated =>
        /\ res.distance # JsonNull
              <=> (res.measurementType = "distance" /\ Len(res.points) >= 2)
        /\ res.area # JsonNull
              <=> (res.measurementType = "area" /\ Len(res.points) >= 3)
        /\ ~(res.distance # JsonNull /\ res.area # JsonNull)

PointsStep ==
    /\ pc' = "handleMapClick" =>
          \E c \in Clicks : res'.points = Append(res.points, <<c.lng, c.lat>>)
    /\ pc' = "handleUndo" =>
          IF res.points = <<>> THEN res' = res
          ELSE res'.points = SubSeq(res.points, 1, Len(res.points) - 1)
    /\ pc' = "handleClear" => res'.points = <<>>

\* C29: once the effect has run, distance is set exactly for type
\* 'distance' with two or more points and area exactly for type 'area' with
\* three or more, never both; a click appends one point [lng, lat], Undo
\* takes the last point away and does nothing on an empty list, Clear
\* empties the list.
C29_MeasuresAndPoints == []MeasuresMatchPoints /\ [][PointsStep]_vars

\* three points measured as an area
C29_Witness ==
    /\ pc = "useEffect" /\ ~res2.effect
    /\ res.measurementType = "area"
    /\ res.points = <<<<2, 1>>, <<1, 0>>, <<2, 1>>>>
    /\ res.area # JsonNull /\ res.distance = JsonNull

(***************************************************************************)
(* C30: the 'MD5' results of hashText and hashFile                          *)
(***************************************************************************)
\* h <- (h * 31 + byte) wrapped to 32 bits, over the bytes
RECURSIVE RollingHash(_, _)
RollingHash(h, bytes) ==
    IF bytes = <<>> THEN h
    ELSE RollingHash([hi |-> (31 * h.hi + (31 * h.lo + Head(bytes)) \div Half) % Half,
                      lo |-> (31 * h.lo + Head(bytes)) % Half],
                     Tail(bytes))

\* the value of up to four hexadecimal digits
RECURSIVE HexValue(_)
HexValue(ds) ==
    IF ds = <<>> THEN 0
    ELSE 16 * HexValue(SubSeq(ds, 1, Len(ds) - 1))
           + (CHOOSE d \in 0..15 : HexDigits[d + 1] = ds[Len(ds)])

\* the 32 characters are the magnitude of the signed value of h, in
\* hexadecimal behind zeros
WritesMagnitude(out, h) ==
    /\ Len(out) = 32
    /\ \A i \in 1..24 : out[i] = "0"
    /\ \A i \in 25..32 : \E d \in 1..16 : HexDigits[d] = out[i]
    /\ LET hi == HexValue(SubSeq(out, 25, 28))
           lo == HexValue(SubSeq(out, 29, 32))
       IN  /\ hi < Half \div 2 \/ (hi = Half \div 2 /\ lo = 0)
           /\ IF h.hi < Half \div 2 THEN hi = h.hi /\ lo = h.lo
              ELSE (hi + h.hi - Half) * Half + lo + h.lo = 0

====
